---- MODULE Spec2Model ----
(***************************************************************************)
(* StGit patch-stack core: the persisted stack state (src/src/stack.rs),   *)
(* the state-commit graph it writes, and the patch-import pipeline         *)
(* (src/src/cmd/import.rs).                                                *)
(*                                                                         *)
(* Conventions.  Option<T> is a sequence of length at most one.  A         *)
(* Result<T, E> is a record [ok, val, err].  An Oid is a natural number    *)
(* below 16^HexDigits; its text form is a sequence of HexDigits hex        *)
(* characters.  A JSON scalar is a token [t, text], so that the number 5   *)
(* and the string "5" are different tokens, as they are on disk.           *)
(***************************************************************************)
EXTENDS Integers, Sequences, FiniteSets, TLC

VARIABLES
    jIn,      \* serde: the StackState handed to the serialiser / the document read
    jDoc,     \* serde: stack.json as written or found (Option)
    jOut,     \* serde: the Result of deserialising or of loading
    jPc,      \* serde: "input" | "serialised" | "deserialised" | "loaded"
    jLoad,    \* from_branch: the repository situation a load runs against
    odb,      \* commit: the objects written to the repository (oid -> object)
    st,       \* commit: the StackState commit() is called on (self)
    cpc,      \* commit: "start" | "parents" | "group" | "done" | "idle"
    loc,      \* commit: the locals of commit() that live across its steps
    cres,     \* commit: the Result<Oid, Error> of the last commit() call
    sref,     \* commit: the ref given as update_ref (Option<Oid>)
    hist,     \* commit: the states committed so far, oldest first
    stack,    \* import: the Stack of the branch [state, branch_head, state_ref]
    repo,     \* import: the commits of the repository, a commit's oid is its index
    ipc,      \* import: "idle" | inside run: "series" (import_series), "importing"
    matches,  \* import: the flags of the running command [ignore, replace]
    ires,     \* import: what the last run / create_patch call returned
    istart,   \* import: the stack the running (or last) command started from
    isrc,     \* import: the lines of the series file / the mails of the mbox
    ilog,     \* import: the items of isrc the loop has taken, with their results
    callArgs, \* call: the function called and its arguments
    callRet,  \* call: what the call returned or did
    callPc    \* call: "args" | "returned" ("off" when no function is called)

jsonVars == <<jIn, jDoc, jOut, jPc, jLoad>>

commitVars == <<odb, st, cpc, loc, cres, sref, hist>>

importVars == <<stack, repo, ipc, matches, ires, istart, isrc, ilog>>

callVars == <<callArgs, callRet, callPc>>

vars == <<jsonVars, commitVars, importVars, callVars>>

---------------------------------------------------------------------------
(* Bounds of the model                                                     *)

HexDigits == 2        \* hex characters of an oid's text form (40 in git)
MaxJsonOid == 2       \* oids 1..MaxJsonOid label commits in the serde model
MaxJsonNames == 2     \* patch names available in the serde model
MaxApplied == 2       \* applied patches of a state handed to commit()
MaxUnapplied == 33    \* unapplied patches of a state handed to commit()
MaxHidden == 1        \* hidden patches of a state handed to commit()
MaxRot == 3           \* iteration orders of the HashSet that are explored
MaxCommits == 3       \* commit() calls in one behaviour
MaxImportNames == 2   \* names that stacks and imported patches draw on
MaxInitial == 2       \* patches of the stack before the first import
MaxImported == 2      \* patch commits the imports of one behaviour create
MaxContext == 1       \* context layers wrapped around an error
MaxLines == 2         \* lines of a series file, mails of an mbox
MaxListedInitial == 1 \* patches of the stack before an import of a given input
MaxNameLen == 3       \* pieces of a name handed to stripname
MaxSourceLen == 1     \* pieces of a name that a source of the patch name gives
MaxMessageLines == 4  \* lines of a message
MaxHeaderLines == 2   \* lines of a mailinfo header block
MaxBlockLines == 1    \* lines of the header block when the message varies too

MAX_PARENTS == 16

---------------------------------------------------------------------------
(* Generic values                                                          *)

None == <<>>

Some(x) == <<x>>

IsSome(o) == Len(o) = 1

Ok(v) == [ok |-> TRUE, val |-> v, err |-> [kind |-> "", arg |-> ""]]

Err(k, a) == [ok |-> FALSE, val |-> <<>>, err |-> [kind |-> k, arg |-> a]]

Range(s) == {s[i] : i \in 1..Len(s)}

NoDup(s) == \A i, j \in 1..Len(s) : i # j => s[i] # s[j]

PatchNames ==
    << "p01", "p02", "p03", "p04", "p05", "p06", "p07", "p08", "p09", "p10",
       "p11", "p12", "p13", "p14", "p15", "p16", "p17", "p18", "p19", "p20",
       "p21", "p22", "p23", "p24", "p25", "p26", "p27", "p28", "p29", "p30",
       "p31", "p32", "p33", "p34", "p35", "p36", "p37", "p38", "p39", "p40" >>

HexChars ==
    << "0", "1", "2", "3", "4", "5", "6", "7",
       "8", "9", "a", "b", "c", "d", "e", "f" >>

---------------------------------------------------------------------------
(* Oid text form: format!("{}", oid) and Oid::from_str                     *)

FormatOid(o) ==
    [i \in 1..HexDigits |-> HexChars[((o \div (16 ^ (HexDigits - i))) % 16) + 1]]

HexVal(c) == (CHOOSE i \in 1..16 : HexChars[i] = c) - 1

RECURSIVE HexNum(_)
HexNum(s) ==
    IF Len(s) = 0 THEN 0
    ELSE 16 * HexNum(SubSeq(s, 1, Len(s) - 1)) + HexVal(s[Len(s)])

OidFromStr(s) ==
    IF Len(s) = HexDigits /\ \A i \in 1..Len(s) : s[i] \in Range(HexChars)
    THEN Ok(HexNum(s))
    ELSE Err("git2", "unable to parse OID")

---------------------------------------------------------------------------
(* StackState and all_patches / top                                        *)

StackState(prev, head, applied, unapplied, hidden, patches) ==
    [prev |-> prev, head |-> head, applied |-> applied,
     unapplied |-> unapplied, hidden |-> hidden, patches |-> patches]

all_patches(s) == s.applied \o s.unapplied \o s.hidden

top_first(s) ==
    IF Len(s.applied) > 0 THEN s.patches[s.applied[1]].oid ELSE s.head

top(s) ==
    IF Len(s.applied) > 0 THEN s.patches[s.applied[Len(s.applied)]].oid
    ELSE s.head

(* The invariants of a valid StackState: the three lists are duplicate-free *)
(* and pairwise disjoint, and together they are the domain of patches.      *)
ValidState(s) ==
    /\ NoDup(all_patches(s))
    /\ DOMAIN s.patches = Range(all_patches(s))

---------------------------------------------------------------------------
(* serde: impl Serialize / impl Deserialize for StackState                 *)

JStr(text) == [t |-> "string", text |-> text]

JInt(text) == [t |-> "int", text |-> text]

(* serde_json reading an i64: the token must be a number token *)
ParseI64(tok) ==
    IF tok.t # "int" THEN Err("serde", "invalid type, expected i64")
    ELSE Ok(CASE tok.text = "4" -> 4
              [] tok.text = "5" -> 5
              [] tok.text = "6" -> 6
              [] OTHER -> 0)

Serialize(s) ==
    [version |-> JStr("5"),
     prev |-> IF IsSome(s.prev) THEN Some(FormatOid(s.prev[1])) ELSE None,
     head |-> FormatOid(s.head),
     applied |-> s.applied,
     unapplied |-> s.unapplied,
     hidden |-> s.hidden,
     patches |-> [n \in DOMAIN s.patches |-> [oid |-> FormatOid(s.patches[n].oid)]]]

DeserializeAnyVersion(raw) ==
    LET ver == ParseI64(raw.version)
        strs == {raw.head} \cup Range(raw.prev)
                  \cup {raw.patches[n].oid : n \in DOMAIN raw.patches}
    IN  IF ~ver.ok THEN ver
        ELSE IF \E x \in strs : ~OidFromStr(x).ok
        THEN Err("panic", "called Result::unwrap() on an Err value")
        ELSE Ok(StackState(
                 IF IsSome(raw.prev) THEN Some(OidFromStr(raw.prev[1]).val) ELSE None,
                 OidFromStr(raw.head).val,
                 raw.applied, raw.unapplied, raw.hidden,
                 [n \in DOMAIN raw.patches |-> [oid |-> OidFromStr(raw.patches[n].oid).val]]))

Deserialize(raw) ==
    LET ver == ParseI64(raw.version)
        strs == {raw.head} \cup Range(raw.prev)
                  \cup {raw.patches[n].oid : n \in DOMAIN raw.patches}
    IN  IF ~ver.ok THEN ver
        ELSE IF ver.val # 5 THEN Err("serde", "invalid value, expected 5")
        ELSE IF \E x \in strs : ~OidFromStr(x).ok
        THEN Err("panic", "called Result::unwrap() on an Err value")
        ELSE Ok(StackState(
                 IF IsSome(raw.prev) THEN Some(OidFromStr(raw.prev[1]).val) ELSE None,
                 OidFromStr(raw.head).val,
                 raw.applied, raw.unapplied, raw.hidden,
                 [n \in DOMAIN raw.patches |-> [oid |-> OidFromStr(raw.patches[n].oid).val]]))

from_stack_json(doc) ==
    LET r == Deserialize(doc)
    IN  IF ~r.ok /\ r.err.kind = "serde" THEN Err("JsonError", r.err.arg) ELSE r

---------------------------------------------------------------------------
(* StackState::from_tree and StackState::from_branch.  The repository a    *)
(* load runs against is a record: the branch argument, what HEAD is, the   *)
(* branches that exist, whether refs/stacks/<branch> exists, and the       *)
(* stack.json entry of the tree it peels to (Option).                      *)

from_tree(stack_json) ==
    IF IsSome(stack_json) THEN from_stack_json(stack_json[1])
    ELSE Err("StGitStackMetadataNotFound", "")

from_branch(r) ==
    LET branch_ref ==
            IF IsSome(r.branch)
            THEN IF r.branch[1] \in r.branches THEN Ok(r.branch[1])
                 ELSE Err("git2", "reference not found")
            ELSE IF r.head_is_branch THEN Ok(r.head)
                 ELSE Err("HeadDetached", "")
    IN  IF ~branch_ref.ok THEN branch_ref
        ELSE IF r.stack_ref THEN from_tree(r.stack_json)
        ELSE Err("StGitStackNotInitialized", branch_ref.val)

---------------------------------------------------------------------------
(* Inputs of the serde model                                               *)

NoDupSeqs(N) == {s \in UNION {[1..k -> N] : k \in 0..Cardinality(N)} : NoDup(s)}

JsonNames == {PatchNames[i] : i \in 1..MaxJsonNames}

JsonOids == 1..MaxJsonOid

JsonStates(names, oids) ==
    UNION { UNION { UNION {
        { StackState(prev, head, a, u, h, pm) :
            prev \in {None} \cup {Some(o) : o \in oids},
            head \in oids,
            pm \in [Range(a) \cup Range(u) \cup Range(h) -> [oid : oids]] } :
        h \in NoDupSeqs(names \ (Range(a) \cup Range(u))) } :
        u \in NoDupSeqs(names \ Range(a)) } :
        a \in NoDupSeqs(names) }

(* What a reader may find as stack.json: the document this writer wrote,   *)
(* the same with a numeric version (5 or another), or with a head that is  *)
(* no hex string.                                                          *)
FoundDocs(s) ==
    LET d == Serialize(s)
    IN  {d} \cup {[d EXCEPT !.version = JInt(v)] : v \in {"4", "5", "6"}}
            \cup {[d EXCEPT !.version = JInt("5"),
                            !.head = [i \in 1..HexDigits |-> "z"]]}

LoadSituations(s) ==
    [branch : {None, Some("main"), Some("gone")},
     head_is_branch : BOOLEAN,
     head : {"main"},
     branches : {{"main"}},
     stack_ref : BOOLEAN,
     stack_json : {None} \cup {Some(d) : d \in FoundDocs(s)}]

NoLoad ==
    [branch |-> None, head_is_branch |-> TRUE, head |-> "main",
     branches |-> {"main"}, stack_ref |-> FALSE, stack_json |-> None]

Pending == Err("pending", "")

NoLocals ==
    [prev_state_tree |-> None, meta_tree |-> 0, simplified_parent |-> 0,
     parent_set |-> {}, parent_oids |-> <<>>, groups |-> <<>>]

(* A Stack: the state read from refs/stacks/<branch>, the branch's tip     *)
(* (import.rs:626 stack.branch_head) and the state commit the ref names.   *)
Stack(state, branch_head, state_ref) ==
    [state |-> state, branch_head |-> branch_head, state_ref |-> state_ref]

NoMatches == [ignore |-> FALSE, replace |-> FALSE]

NoResult ==
    [ok |-> TRUE, outcome |-> "none", candidate |-> "", patchname |-> "",
     commit_id |-> 0, err |-> "", detail |-> <<>>]

ImportIdle ==
    /\ stack = Stack(StackState(None, 1, <<>>, <<>>, <<>>, <<>>), 1, None)
    /\ repo = <<>>
    /\ ipc = "off"
    /\ matches = NoMatches
    /\ ires = NoResult
    /\ istart = stack
    /\ isrc = <<>>
    /\ ilog = <<>>

CallIdle ==
    /\ callArgs = <<>>
    /\ callRet = <<>>
    /\ callPc = "off"

CommitIdle ==
    /\ odb = <<>>
    /\ st = StackState(None, 1, <<>>, <<>>, <<>>, <<>>)
    /\ cpc = "idle"
    /\ loc = NoLocals
    /\ cres = Pending
    /\ sref = None
    /\ hist = <<>>

JsonInit ==
    /\ jIn \in {s \in JsonStates(JsonNames, JsonOids) : ValidState(s)}
    /\ jDoc = None
    /\ jOut = Pending
    /\ jPc = "input"
    /\ jLoad = NoLoad
    /\ CommitIdle
    /\ ImportIdle
    /\ CallIdle

JsonIdle ==
    /\ jIn = StackState(None, 1, <<>>, <<>>, <<>>, <<>>)
    /\ jDoc = None
    /\ jOut = Pending
    /\ jPc = "idle"
    /\ jLoad = NoLoad

(* serde_json::to_string_pretty(self), as make_tree calls it *)
JSerialize ==
    /\ jPc = "input"
    /\ jDoc' = Some(Serialize(jIn))
    /\ jPc' = "serialised"
    /\ UNCHANGED <<jIn, jOut, jLoad, commitVars, importVars, callVars>>

(* StackState::from_stack_json on the bytes just written *)
JDeserialize ==
    /\ jPc = "serialised"
    /\ jOut' = from_stack_json(jDoc[1])
    /\ jPc' = "deserialised"
    /\ UNCHANGED <<jIn, jDoc, jLoad, commitVars, importVars, callVars>>

(* StackState::from_branch against one repository situation; the loads are *)
(* run for the states without prev, which is what stack.json of any state  *)
(* looks like up to its prev field.                                        *)
JFromBranch ==
    /\ jPc = "input"
    /\ jIn.prev = None /\ jIn.head = 1
    /\ \E r \in LoadSituations(jIn) :
          /\ jLoad' = r
          /\ jOut' = from_branch(r)
    /\ jPc' = "loaded"
    /\ UNCHANGED <<jIn, jDoc, commitVars, importVars, callVars>>

JsonNext == JSerialize \/ JDeserialize \/ JFromBranch

SpecJson == JsonInit /\ [][JsonNext]_vars


---------------------------------------------------------------------------
(* The object database.  Commits 1..NBase are the history the patches live *)
(* in (commit k+1 on top of commit k) and NBase+1..2*NBase are their       *)
(* trees; they exist before commit() runs and are not part of the state.   *)
(* odb holds what commit() writes.  Objects are content-addressed: writing *)
(* an object that exists returns the oid it has.  The meta blob of a patch *)
(* is a function of the patch commit alone, so the blob of commit c has    *)
(* the oid MetaOid(c); every other new object gets the next free oid.      *)

NBase == MaxApplied + MaxUnapplied + MaxHidden + 1

BaseOids == 1..(2 * NBase)

BaseObj(o) ==
    IF o <= NBase
    THEN [kind |-> "commit", tree |-> NBase + o,
          parents |-> IF o = 1 THEN <<>> ELSE <<o - 1>>,
          message |-> "change", author |-> "A U Thor <a@example.com>", time |-> o]
    ELSE [kind |-> "tree", entries |-> ("file" :> o)]

Exists(db, o) == o \in BaseOids \/ o \in DOMAIN db

Obj(db, o) == IF o \in BaseOids THEN BaseObj(o) ELSE db[o]

MetaOid(c) == 2 * NBase + c

PutValue(db, obj) ==
    IF \E o \in DOMAIN db : db[o] = obj
    THEN [db |-> db, oid |-> CHOOSE o \in DOMAIN db : db[o] = obj]
    ELSE LET new == 3 * NBase + Cardinality({o \in DOMAIN db : o > 3 * NBase}) + 1
         IN  [db |-> (new :> obj) @@ db, oid |-> new]

(* repo.blob / treebuilder.write / repo.commit: write one object *)
Put(db, obj) ==
    CHOOSE r \in {PutValue(d, v) : d \in {db}, v \in {obj}} : TRUE

find_commit(db, o) ==
    IF Exists(db, o) /\ Obj(db, o).kind = "commit" THEN Ok(o)
    ELSE Err("git2", "the requested type does not match the type in the ODB")

find_tree(db, o) ==
    IF Exists(db, o) /\ Obj(db, o).kind = "tree" THEN Ok(o)
    ELSE Err("git2", "the requested type does not match the type in the ODB")

(* Commit::parent(0) *)
parent0(db, c) ==
    IF Len(Obj(db, c).parents) > 0 THEN Ok(Obj(db, c).parents[1])
    ELSE Err("git2", "parent 0 does not exist")

(* repo.commit(_, &sig, &sig, message, &tree, parents) *)
CommitObj(tree, parents, message) ==
    [kind |-> "commit", tree |-> tree, parents |-> parents, message |-> message,
     author |-> "stg <stg@example.com>", time |-> 0]

(* tree.get_name("stack.json") and the blob it names *)
TreeStackJson(db, t) ==
    IF "stack.json" \in DOMAIN Obj(db, t).entries
    THEN Some(Obj(db, Obj(db, t).entries["stack.json"]).data)
    ELSE None

(* prev_tree.get_path("patches/<name>") *)
get_path(db, t, name) ==
    IF "patches" \in DOMAIN Obj(db, t).entries
       /\ name \in DOMAIN Obj(db, Obj(db, t).entries["patches"]).entries
    THEN Ok(Obj(db, Obj(db, t).entries["patches"]).entries[name])
    ELSE Err("git2", "the path does not exist in the given tree")

---------------------------------------------------------------------------
(* StackState::make_patch_meta, make_patches_tree, make_tree.  Each takes  *)
(* the database and returns [db, res]: the database after its writes and   *)
(* the Result it returns.                                                  *)

(* lines 243-261: the text of the meta blob of a patch commit *)
PatchMetaBlob(db, oid) ==
    [kind |-> "blob",
     data |-> [Bottom |-> FormatOid(Obj(db, Obj(db, oid).parents[1]).tree),
               Top |-> FormatOid(Obj(db, oid).tree),
               Author |-> Obj(db, oid).author,
               Date |-> Obj(db, oid).time]]

InPrevState(prev_state, patch_name, oid) ==
    \E i \in 1..Len(all_patches(prev_state)) :
        /\ all_patches(prev_state)[i] = patch_name
        /\ prev_state.patches[all_patches(prev_state)[i]].oid = oid

make_patch_meta(db, patch_name, oid, prev_state_tree) ==
    IF /\ IsSome(prev_state_tree)
       /\ InPrevState(prev_state_tree[1].state, patch_name, oid)
       /\ get_path(db, prev_state_tree[1].tree, patch_name).ok
    THEN [db |-> db, res |-> get_path(db, prev_state_tree[1].tree, patch_name)]
    ELSE IF ~find_commit(db, oid).ok
    THEN [db |-> db, res |-> find_commit(db, oid)]
    ELSE IF ~parent0(db, oid).ok
    THEN [db |-> db, res |-> parent0(db, oid)]
    ELSE [db |-> (MetaOid(oid) :> PatchMetaBlob(db, oid)) @@ db,
          res |-> Ok(MetaOid(oid))]

(* The loop of make_patches_tree.  metas[i] is what make_patch_meta gives  *)
(* for the i-th patch; a blob written for one patch does not change the    *)
(* result for another, so the loop stops at the first failing patch with   *)
(* the blobs of the patches before it written, or ends with all written.   *)
PatchesTreeOf(db, self, metas) ==
    LET names == all_patches(self)
        bad == {i \in 1..Len(names) : ~metas[i].res.ok}
        stop == IF bad = {} THEN Len(names) + 1
                ELSE CHOOSE i \in bad : \A j \in bad : i <= j
        done == {i \in 1..Len(names) : i < stop}
        blobs == UNION {DOMAIN metas[i].db \ DOMAIN db : i \in done}
        db2 == [o \in blobs \cup DOMAIN db |->
                  IF o \in DOMAIN db THEN db[o] ELSE PatchMetaBlob(db, o - 2 * NBase)]
    IN  IF bad # {} THEN [db |-> db2, res |-> metas[stop].res]
        ELSE LET w == Put(db2, [kind |-> "tree",
                                entries |-> [n \in Range(names) |->
                                    metas[CHOOSE i \in 1..Len(names) : names[i] = n].res.val]])
             IN  [db |-> w.db, res |-> Ok(w.oid)]

make_patches_tree(db, self, prev_state_tree) ==
    CHOOSE r \in
        {PatchesTreeOf(d, self, metas) :
            d \in {db},
            metas \in {[i \in 1..Len(all_patches(self)) |->
                          make_patch_meta(db, all_patches(self)[i],
                                          self.patches[all_patches(self)[i]].oid,
                                          prev_state_tree)]}} : TRUE

StateTreeOf(b, p) ==
    IF ~p.res.ok THEN p
    ELSE LET w == Put(p.db, [kind |-> "tree",
                             entries |-> ("stack.json" :> b.oid)
                                         @@ ("patches" :> p.res.val)])
         IN  [db |-> w.db, res |-> Ok(w.oid)]

make_tree(db, self, prev_state_tree) ==
    CHOOSE r \in
        {CHOOSE t \in {StateTreeOf(b, p) :
                          p \in {make_patches_tree(b.db, self, prev_state_tree)}} : TRUE :
            b \in {Put(db, [kind |-> "blob", data |-> Serialize(self)])}} : TRUE

---------------------------------------------------------------------------
(* StackState::commit, in four steps: (1) load the previous state, build   *)
(* the state tree and write the simplified parent; (2) collect the parent  *)
(* set; (3) one iteration of the grouping loop; (4) write the state commit *)

Message == "stack update"

(* lines 102-109: prev_state_tree *)
LoadPrev(db, self) ==
    IF IsSome(self.prev)
    THEN LET t == find_tree(db, self.prev[1])
         IN  IF ~t.ok THEN t
             ELSE LET ps == from_tree(TreeStackJson(db, t.val))
                  IN  IF ~ps.ok THEN ps
                      ELSE Ok(Some([state |-> ps.val, tree |-> t.val]))
    ELSE Ok(None)

(* lines 113-116: simplified_parents *)
SimplifiedParents(db, self) ==
    IF IsSome(self.prev)
    THEN IF ~find_commit(db, self.prev[1]).ok THEN find_commit(db, self.prev[1])
         ELSE IF ~parent0(db, self.prev[1]).ok THEN parent0(db, self.prev[1])
         ELSE Ok(<<parent0(db, self.prev[1]).val>>)
    ELSE Ok(<<>>)

ParentSetNoTop(self, prev_state_tree) ==
    {self.head}
      \cup {self.patches[self.unapplied[i]].oid : i \in 1..Len(self.unapplied)}
      \cup {self.patches[self.hidden[i]].oid : i \in 1..Len(self.hidden)}

(* lines 128-145: parent_set *)
ParentSet(self, prev_state_tree) ==
    LET own == {self.head, top(self)}
                 \cup {self.patches[self.unapplied[i]].oid : i \in 1..Len(self.unapplied)}
                 \cup {self.patches[self.hidden[i]].oid : i \in 1..Len(self.hidden)}
    IN  IF IsSome(self.prev)
        THEN (own \cup {self.prev[1]})
               \ {prev_state_tree[1].state.patches[n].oid :
                    n \in Range(all_patches(prev_state_tree[1].state))}
        ELSE own

SortedSeq(S) ==
    [i \in 1..Cardinality(S) |->
        CHOOSE x \in S : Cardinality({y \in S : y < x}) = i - 1]

(* line 147: parent_set.iter().copied().collect().  The iteration order of *)
(* a HashSet is unspecified; the orders explored are the rotations of the  *)
(* ascending order by fewer than MaxRot places.                            *)
HashOrders(S) ==
    UNION {{[i \in 1..Len(s) |-> s[((i - 1 + k) % Len(s)) + 1]] :
               k \in {j \in 0..(MaxRot - 1) : j < Len(s)}} :
           s \in {SortedSeq(S)}}

(* line 151: parent_oids.drain(len - MAX_PARENTS..len), what is drained *)
GroupOidsShort(p) == SubSeq(p, Len(p) - MAX_PARENTS + 2, Len(p))

GroupOids(p) == SubSeq(p, Len(p) - MAX_PARENTS + 1, Len(p))

(* the drain leaving one oid too many *)
RemainingOidsLong(p) == SubSeq(p, 1, Len(p) - MAX_PARENTS + 1)

(* line 151: what the drain leaves in parent_oids *)
RemainingOids(p) == SubSeq(p, 1, Len(p) - MAX_PARENTS)

FirstBad(db, oids) ==
    find_commit(db, oids[CHOOSE i \in 1..Len(oids) : ~find_commit(db, oids[i]).ok])

CommitFail(db, e) ==
    /\ odb' = db
    /\ cres' = e
    /\ cpc' = "done"
    /\ UNCHANGED <<st, loc, sref, hist>>

CommitBegin ==
    /\ cpc = "start"
    /\ \E lp \in {LoadPrev(odb, st)} :
          IF ~lp.ok THEN CommitFail(odb, lp)
          ELSE \E mt \in {make_tree(odb, st, lp.val)} :
               \E sps \in {SimplifiedParents(mt.db, st)} :
                  IF ~mt.res.ok THEN CommitFail(mt.db, mt.res)
                  ELSE IF ~sps.ok THEN CommitFail(mt.db, sps)
                  ELSE \E sp \in {Put(mt.db, CommitObj(mt.res.val, sps.val, Message))} :
                          /\ odb' = sp.db
                          /\ loc' = [NoLocals EXCEPT
                                       !.prev_state_tree = lp.val,
                                       !.meta_tree = mt.res.val,
                                       !.simplified_parent = sp.oid]
                          /\ cpc' = "parents"
                          /\ UNCHANGED <<st, cres, sref, hist>>
    /\ UNCHANGED <<jsonVars, importVars, callVars>>

CommitParents ==
    /\ cpc = "parents"
    /\ \E parent_set \in {ParentSet(st, loc.prev_state_tree)} :
       \E order \in HashOrders(parent_set) :
          loc' = [loc EXCEPT !.parent_set = parent_set, !.parent_oids = order]
    /\ cpc' = "group"
    /\ UNCHANGED <<odb, st, cres, sref, hist, jsonVars, importVars, callVars>>

(* lines 149-167: one iteration of the while loop *)
CommitGroup ==
    /\ cpc = "group"
    /\ Len(loc.parent_oids) > MAX_PARENTS
    /\ LET parent_group_oids == GroupOids(loc.parent_oids)
       IN  IF \E i \in 1..Len(parent_group_oids) :
                 ~find_commit(odb, parent_group_oids[i]).ok
           THEN CommitFail(odb, FirstBad(odb, parent_group_oids))
           ELSE \E g \in {Put(odb, CommitObj(loc.meta_tree, parent_group_oids,
                                               "parent grouping"))} :
                    /\ odb' = g.db
                    /\ loc' = [loc EXCEPT
                                 !.parent_oids =
                                     Append(RemainingOids(loc.parent_oids), g.oid),
                                 !.groups = Append(loc.groups, g.oid)]
                    /\ UNCHANGED <<st, cpc, cres, sref, hist>>
    /\ UNCHANGED <<jsonVars, importVars, callVars>>

(* lines 169-179: the state commit, update_ref = Some(stack ref) *)
CommitFinish ==
    /\ cpc = "group"
    /\ Len(loc.parent_oids) <= MAX_PARENTS
    /\ LET parent_commits == <<loc.simplified_parent>> \o loc.parent_oids
       IN  IF \E i \in 1..Len(parent_commits) : ~find_commit(odb, parent_commits[i]).ok
           THEN CommitFail(odb, FirstBad(odb, parent_commits))
           ELSE \E c \in {Put(odb, CommitObj(loc.meta_tree, parent_commits, Message))} :
                    /\ odb' = c.db
                    /\ cres' = Ok(c.oid)
                    /\ sref' = Some(c.oid)
                    /\ hist' = Append(hist, [state |-> st, commit |-> c.oid])
                    /\ cpc' = "done"
                    /\ UNCHANGED <<st, loc>>
    /\ UNCHANGED <<jsonVars, importVars, callVars>>

---------------------------------------------------------------------------
(* The states commit() is called on                                        *)

CommitState(nA, nU, nH, headTop, shared) ==
    LET applied == [i \in 1..nA |-> PatchNames[i]]
        unapplied == [i \in 1..nU |-> PatchNames[nA + i]]
        hidden == [i \in 1..nH |-> PatchNames[nA + nU + i]]
        idx(n) == CHOOSE k \in 1..Len(PatchNames) : PatchNames[k] = n
        oidOf(n) == IF shared /\ nU >= 2 /\ n = unapplied[nU]
                    THEN 1 + idx(unapplied[1])
                    ELSE 1 + idx(n)
        patches == [n \in Range(applied \o unapplied \o hidden) |-> [oid |-> oidOf(n)]]
    IN  StackState(None, IF headTop THEN 1 + nA ELSE 1,
                   applied, unapplied, hidden, patches)

CommitStates(maxA, maxU, maxH) ==
    { CommitState(nA, nU, nH, headTop, shared) :
        nA \in 0..maxA, nU \in 0..maxU, nH \in 0..maxH,
        headTop \in BOOLEAN, shared \in BOOLEAN }

(* The state a transaction hands to commit() after the state committed as  *)
(* c: prev is c; the lists are kept, or the first patch has a new commit.  *)
Successors(s, c) ==
    {[s EXCEPT !.prev = Some(c)]}
      \cup {[s EXCEPT !.prev = Some(c),
                      !.patches[all_patches(s)[1]] = [oid |-> NBase]] :
               x \in {1} \cap 1..Len(all_patches(s))}

NewTransaction ==
    /\ cpc = "done"
    /\ cres.ok
    /\ Len(hist) < MaxCommits
    /\ st' \in Successors(st, cres.val)
    /\ cpc' = "start"
    /\ cres' = Pending
    /\ loc' = NoLocals
    /\ UNCHANGED <<odb, sref, hist, jsonVars, importVars, callVars>>

CommitInit ==
    /\ odb = <<>>
    /\ st \in CommitStates(MaxApplied, MaxUnapplied, MaxHidden)
    /\ cpc = "start"
    /\ loc = NoLocals
    /\ cres = Pending
    /\ sref = None
    /\ hist = <<>>
    /\ JsonIdle
    /\ ImportIdle
    /\ CallIdle

CommitNext ==
    CommitBegin \/ CommitParents \/ CommitGroup \/ CommitFinish \/ NewTransaction

SpecCommit == CommitInit /\ [][CommitNext]_vars

(* commit() is sequential code: a call that has started keeps running *)
SpecCommitFair ==
    SpecCommit /\ WF_vars(CommitGroup \/ CommitFinish)

---------------------------------------------------------------------------
(* stg import: run and create_patch (src/src/cmd/import.rs)                *)
(*                                                                         *)
(* The Stack type, PatchName, the patch editor and the transaction engine  *)
(* are used by import.rs but defined elsewhere; they follow the            *)
(* specification (PatchName 4.1, transaction engine 4.5, data model 3).    *)

ImportNames == <<"a", "b", "c", "d">>

CandidateNames == {ImportNames[i] : i \in 1..MaxImportNames}

(* PatchName::uniquify: the first of name-1, name-2, ... that is free *)
RECURSIVE UniquifyFrom(_, _, _)
UniquifyFrom(name, disallow, i) ==
    IF (name \o "-" \o ToString(i)) \notin disallow
    THEN name \o "-" \o ToString(i)
    ELSE UniquifyFrom(name, disallow, i + 1)

uniquify(name, disallow_applied, disallow_all) ==
    IF name \notin (Range(disallow_applied) \cup Range(disallow_all))
    THEN name
    ELSE UniquifyFrom(name, Range(disallow_applied) \cup Range(disallow_all), 1)

(* run, line 204: the branch tip has to be the top of the stack *)
check_head_top_mismatch(s) == s.branch_head = top(s.state)

(* A transaction stages its operations on a shadow of the stack's lists;   *)
(* error is set once a staged operation is rejected.                       *)
setup_transaction(s) ==
    [applied |-> s.state.applied, unapplied |-> s.state.unapplied,
     hidden |-> s.state.hidden, patches |-> s.state.patches, error |-> None]

Without(list, names) == SelectSeq(list, LAMBDA pn : pn \notin names)

delete_patches(trans, names) ==
    [trans EXCEPT !.applied = Without(@, names),
                  !.unapplied = Without(@, names),
                  !.hidden = Without(@, names),
                  !.patches = [pn \in DOMAIN @ \ names |-> @[pn]]]

(* new_applied without the check of the invariants *)
new_applied_unchecked(trans, patchname, oid) ==
    IF IsSome(trans.error) THEN trans
    ELSE [trans EXCEPT
            !.applied = Append(@, patchname),
            !.patches = [pn \in DOMAIN @ \cup {patchname} |->
                            IF pn = patchname THEN [oid |-> oid] ELSE @[pn]]]

(* A name that is already in one of the lists is rejected (Invariant). *)
new_applied(trans, patchname, oid) ==
    IF IsSome(trans.error) THEN trans
    ELSE IF patchname \in DOMAIN trans.patches
              \/ patchname \in Range(trans.applied \o trans.unapplied \o trans.hidden)
    THEN [trans EXCEPT !.error = Some("Invariant")]
    ELSE [trans EXCEPT
            !.applied = Append(@, patchname),
            !.patches = [pn \in DOMAIN @ \cup {patchname} |->
                            IF pn = patchname THEN [oid |-> oid] ELSE @[pn]]]

(* execute: the new state (prev is the previous state's commit, head the   *)
(* branch tip as it is recorded), the stack ref set to the new state       *)
(* commit, and the branch set to the new applied tip.                      *)
execute(s, trans, state_oid) ==
    Stack(StackState(s.state_ref, s.branch_head, trans.applied,
                     trans.unapplied, trans.hidden, trans.patches),
          top(StackState(s.state_ref, s.branch_head, trans.applied,
                         trans.unapplied, trans.hidden, trans.patches)),
          Some(state_oid))

(* lines 576-587 with only the applied patches disallowed at line 580 *)
CollisionPolicyApplied(s, patchname, opt_ignore, opt_replace) ==
    IF ~opt_ignore /\ ~opt_replace
    THEN Some(uniquify(patchname, <<>>, s.state.applied))
    ELSE IF opt_ignore /\ patchname \in Range(s.state.applied)
    THEN None
    ELSE Some(patchname)

(* lines 576-587 with --ignore looking at every patch at line 582 *)
CollisionPolicyIgnoreAll(s, patchname, opt_ignore, opt_replace) ==
    IF ~opt_ignore /\ ~opt_replace
    THEN Some(uniquify(patchname, <<>>, all_patches(s.state)))
    ELSE IF opt_ignore /\ patchname \in Range(all_patches(s.state))
    THEN None
    ELSE Some(patchname)

(* lines 576-587: the name to go on with, or None for "return Ok(stack)" *)
CollisionPolicy(s, patchname, opt_ignore, opt_replace) ==
    IF ~opt_ignore /\ ~opt_replace
    THEN Some(uniquify(patchname, <<>>, all_patches(s.state)))
    ELSE IF opt_ignore /\ patchname \in Range(s.state.applied)
    THEN None
    ELSE Some(patchname)

(* lines 646-651 without the delete_patches of line 648 *)
ImportTransactionKeep(trans, new_patchname, commit_id, opt_replace) ==
    new_applied(trans, new_patchname, commit_id)

(* lines 646-651: the closure given to transact *)
ImportTransaction(trans, new_patchname, commit_id, opt_replace) ==
    IF opt_replace /\ new_patchname \in Range(trans.unapplied)
    THEN new_applied(delete_patches(trans, {new_patchname}), new_patchname, commit_id)
    ELSE new_applied(trans, new_patchname, commit_id)

(* The steps of create_patch that may fail with an Err, in their order *)
FailPoints == {"none", "apply", "write_tree", "edit", "execute"}

ImportOk(outcome, candidate, patchname, commit_id) ==
    [ok |-> TRUE, outcome |-> outcome, candidate |-> candidate,
     patchname |-> patchname, commit_id |-> commit_id, err |-> "", detail |-> <<>>]

ImportErr(candidate, e) ==
    [ok |-> FALSE, outcome |-> "failed", candidate |-> candidate,
     patchname |-> "", commit_id |-> 0, err |-> e, detail |-> <<>>]

Returned(s, r, res) == [stack |-> s, repo |-> r, res |-> res]

ImportCommit(parent) == [kind |-> "import", parent |-> parent]

StateCommit(prev) == [kind |-> "state", parent |-> IF IsSome(prev) THEN prev[1] ELSE 0]

(* lines 641-652 with the stack of a failed execute handed on as it was   *)
(* staged                                                                  *)
TransactKeepsStaged(s, r, opt_replace, candidate, new_patchname, commit_id, fail) ==
    IF IsSome(ImportTransaction(setup_transaction(s), new_patchname, commit_id,
                                opt_replace).error)
    THEN Returned(s, r, ImportErr(candidate, "Invariant"))
    ELSE Returned(
           execute(s, ImportTransaction(setup_transaction(s), new_patchname,
                                        commit_id, opt_replace), Len(r) + 1),
           Append(r, StateCommit(s.state_ref)),
           IF fail = "execute" THEN ImportErr(candidate, "execute")
           ELSE ImportOk("imported", candidate, new_patchname, commit_id))

(* lines 641-652, once the patch commit commit_id is in the repository r *)
Transact(s, r, opt_replace, candidate, new_patchname, commit_id, fail) ==
    IF IsSome(ImportTransaction(setup_transaction(s), new_patchname, commit_id,
                                opt_replace).error)
    THEN Returned(s, r, ImportErr(candidate, "Invariant"))
    ELSE IF fail = "execute"
    THEN Returned(s, r, ImportErr(candidate, "execute"))
    ELSE Returned(
           execute(s, ImportTransaction(setup_transaction(s), new_patchname,
                                        commit_id, opt_replace), Len(r) + 1),
           Append(r, StateCommit(s.state_ref)),
           ImportOk("imported", candidate, new_patchname, commit_id))

(* line 626 with the stack's recorded head in place of the branch head *)
override_parent_id_head(s) == s.state.head

(* line 626: the parent the editor gives the new patch commit *)
override_parent_id(s) == s.branch_head

(* create_patch, lines 576-653.  candidate is the name of line 570-574;    *)
(* edited is the name the patch editor hands back when it is not the one   *)
(* it was given (lines 623-639).                                           *)
create_patch(s, r, m, candidate, fail, edited) ==
    IF CollisionPolicy(s, candidate, m.ignore, m.replace) = None
    THEN Returned(s, r, ImportOk("ignored", candidate, candidate, 0))
    ELSE IF fail \in {"apply", "write_tree", "edit"}
    THEN Returned(s, r, ImportErr(candidate, fail))
    ELSE Transact(s, Append(r, ImportCommit(override_parent_id(s))), m.replace, candidate,
                  IF IsSome(edited) THEN edited[1]
                  ELSE CollisionPolicy(s, candidate, m.ignore, m.replace)[1],
                  Len(r) + 1, fail)

Imported(r) == Cardinality({i \in 1..Len(r) : r[i].kind = "import"})

(* The stacks an import may find: the base commit 1, the patches on        *)
(* commits 2.., the applied ones in a chain on the base, then the state    *)
(* commit; with bad_head, a commit made on the branch behind StGit's back. *)
InitialRepo(a, u, h, bad_head) ==
    <<[kind |-> "base", parent |-> 0]>>
    \o [i \in 1..Len(a) |-> [kind |-> "patch", parent |-> i]]
    \o [i \in 1..(Len(u) + Len(h)) |-> [kind |-> "patch", parent |-> 1]]
    \o <<[kind |-> "state", parent |-> 0]>>
    \o (IF bad_head THEN <<[kind |-> "foreign", parent |-> Len(a) + 1]>> ELSE <<>>)

InitialStack(a, u, h, bad_head) ==
    Stack(StackState(None, 1, a, u, h,
                     [pn \in Range(a \o u \o h) |->
                        [oid |-> 1 + CHOOSE i \in 1..Len(a \o u \o h) :
                                        (a \o u \o h)[i] = pn]]),
          IF bad_head THEN Len(a \o u \o h) + 3 ELSE Len(a) + 1,
          Some(Len(a \o u \o h) + 2))

InitialLists(names) ==
    UNION { UNION {
        { <<a, u, h>> : h \in NoDupSeqs(names \ (Range(a) \cup Range(u))) } :
        u \in NoDupSeqs(names \ Range(a)) } :
        a \in NoDupSeqs(names) }

ImportInit ==
    /\ \E l \in InitialLists(CandidateNames), bad_head \in BOOLEAN :
        /\ Len(l[1]) + Len(l[2]) + Len(l[3]) <= MaxInitial
        /\ stack = InitialStack(l[1], l[2], l[3], bad_head)
        /\ repo = InitialRepo(l[1], l[2], l[3], bad_head)
    /\ ipc = "idle"
    /\ matches = NoMatches
    /\ ires = NoResult
    /\ istart = stack
    /\ isrc = <<>>
    /\ ilog = <<>>
    /\ JsonIdle
    /\ CommitIdle
    /\ CallIdle

(* run, lines 188-218, up to the first patch *)
Run ==
    /\ ipc = "idle"
    /\ Imported(repo) < MaxImported
    /\ \E opt_ignore, opt_replace, series \in BOOLEAN :
        IF check_head_top_mismatch(stack)
        THEN /\ ipc' = IF series THEN "series" ELSE "importing"
             /\ matches' = [ignore |-> opt_ignore, replace |-> opt_replace]
             /\ ires' = NoResult
        ELSE /\ ires' = ImportErr("", "head_top_mismatch")
             /\ UNCHANGED <<ipc, matches>>
    /\ istart' = stack
    /\ UNCHANGED <<stack, repo, isrc, ilog, jsonVars, commitVars, callVars>>

(* create_patch for one patch of the run, and the loops of import_series  *)
(* and import_mail going on to the next patch (more) or run returning.     *)
(* editors are the names the patch editor may hand back, mores whether    *)
(* the loop has another item.                                              *)
(* The inputs that cannot change what the call does are not varied: no     *)
(* step fails in a call that returns at line 584, the editor is not        *)
(* reached after an earlier failure, and an Err ends the run.              *)
PatchStep(candidate, editors, mores) ==
    \E pol \in {CollisionPolicy(stack, candidate, matches.ignore, matches.replace)} :
    \E fail \in IF pol = None THEN {"none"} ELSE FailPoints :
    \E edited \in IF pol = None \/ fail \in {"apply", "write_tree", "edit"}
                  THEN {None}
                  ELSE {None} \cup {Some(n) : n \in editors \ {pol[1]}} :
    \E ret \in {create_patch(s, r, m, candidate, fail, edited) :
                    s \in {stack}, r \in {repo}, m \in {matches}} :
    \E more \in IF ret.res.ok THEN mores ELSE {FALSE} :
        /\ stack' = ret.stack
        /\ repo' = ret.repo
        /\ ires' = ret.res
        /\ ipc' = IF more THEN ipc ELSE "idle"
        /\ matches' = IF more THEN matches ELSE NoMatches

(* import_file / import_mail: the next patch of a run that reads no series *)
CreatePatch ==
    /\ ipc = "importing"
    /\ Imported(repo) < MaxImported
    /\ \E candidate \in CandidateNames :
            PatchStep(candidate, CandidateNames, BOOLEAN)
    /\ UNCHANGED <<istart, isrc, ilog, jsonVars, commitVars, callVars>>

(* The second field of a series line, as its characters *)
ExtraFields ==
    {None, Some(<<"-", "p", "0">>), Some(<<"-", "p", "2">>)}

(* lines 371-387: the strip level a series line asks for *)
strip_level(raw_patchname, extra) ==
    IF IsSome(extra)
    THEN IF Len(extra[1]) >= 2 /\ extra[1][1] = "-" /\ extra[1][2] = "p"
         THEN IF extra[1] = <<"-", "p", "0">>
              THEN Ok(Some(0))
              ELSE Err("unsupported strip level", <<raw_patchname, extra[1]>>)
         ELSE Ok(None)
    ELSE Ok(None)

(* import_series, lines 352-390: one non-empty line of the series file,    *)
(* its first field naming the patch file.                                  *)
ImportSeriesLine ==
    /\ ipc = "series"
    /\ Imported(repo) < MaxImported
    /\ \E raw_patchname \in CandidateNames, extra \in ExtraFields :
        IF strip_level(raw_patchname, extra).ok
        THEN PatchStep(raw_patchname, CandidateNames, BOOLEAN)
        ELSE /\ ires' = [ImportErr(raw_patchname,
                                   strip_level(raw_patchname, extra).err.kind)
                         EXCEPT !.detail = strip_level(raw_patchname, extra).err.arg]
             /\ ipc' = "idle"
             /\ matches' = NoMatches
             /\ UNCHANGED <<stack, repo>>
    /\ UNCHANGED <<istart, isrc, ilog, jsonVars, commitVars, callVars>>

ImportNext == Run \/ CreatePatch \/ ImportSeriesLine

SpecImport == ImportInit /\ [][ImportNext]_vars

---------------------------------------------------------------------------
(* stg import with the whole input given: import_series over the lines of *)
(* a series file, import_mail over the mails mailsplit numbered.           *)
(* The patch editor hands every name back as it got it.                   *)

(* A line that is empty once its comment is cut off and it is trimmed     *)
(* (lines 353-360); any other line is <<first field, second field>>.       *)
BlankLine == <<>>

SeriesFiles(names, maxLines) ==
    UNION { [1..n -> {BlankLine} \cup (names \X ExtraFields)] : n \in 0..maxLines }

(* The mails of an mbox, each with the name create_patch derives for it *)
Mboxes(names, maxLines) ==
    UNION { [1..n -> names \X {None}] : n \in 1..maxLines }

(* The loops read their input from the end *)
NextBackwards(src, log) == src[Len(src) - Len(log)]

(* line 352 (series.lines()) and line 424 (1..num_patches + 1): the item  *)
(* the loop takes after those in log                                       *)
NextItem(src, log) == src[Len(log) + 1]

SeriesInit ==
    /\ \E l \in InitialLists(CandidateNames), bad_head \in BOOLEAN :
        /\ Len(l[1]) + Len(l[2]) + Len(l[3]) <= MaxListedInitial
        /\ stack = InitialStack(l[1], l[2], l[3], bad_head)
        /\ repo = InitialRepo(l[1], l[2], l[3], bad_head)
    /\ ipc = "idle"
    /\ matches = NoMatches
    /\ ires = NoResult
    /\ istart = stack
    /\ isrc = <<>>
    /\ ilog = <<>>
    /\ JsonIdle
    /\ CommitIdle
    /\ CallIdle

(* run, lines 188-218, with the input read (line 341, line 422); one      *)
(* command in a behaviour.                                                 *)
RunListed ==
    /\ ipc = "idle"
    /\ ires = NoResult
    /\ isrc = <<>>
    /\ \E opt_ignore, opt_replace, series \in BOOLEAN :
       \E src \in IF series THEN SeriesFiles(CandidateNames, MaxLines)
                            ELSE Mboxes(CandidateNames, MaxLines) :
        IF check_head_top_mismatch(stack)
        THEN /\ ipc' = IF src = <<>> THEN "idle"
                       ELSE IF series THEN "series" ELSE "importing"
             /\ matches' = IF src = <<>> THEN NoMatches
                           ELSE [ignore |-> opt_ignore, replace |-> opt_replace]
             /\ isrc' = src
             /\ ires' = NoResult
        ELSE /\ ires' = ImportErr("", "head_top_mismatch")
             /\ UNCHANGED <<ipc, matches, isrc>>
    /\ istart' = stack
    /\ UNCHANGED <<stack, repo, ilog, jsonVars, commitVars, callVars>>

(* import_series, lines 352-390: one iteration of the loop *)
SeriesLine ==
    /\ ipc = "series"
    /\ Len(ilog) < Len(isrc)
    /\ \E line \in {NextItem(isrc, ilog)} :
        /\ IF line = BlankLine
           THEN /\ ires' = NoResult
                /\ ipc' = IF Len(ilog) + 1 < Len(isrc) THEN ipc ELSE "idle"
                /\ matches' = IF Len(ilog) + 1 < Len(isrc) THEN matches ELSE NoMatches
                /\ UNCHANGED <<stack, repo>>
           ELSE IF strip_level(line[1], line[2]).ok
           THEN PatchStep(line[1], {}, {Len(ilog) + 1 < Len(isrc)})
           ELSE /\ ires' = [ImportErr(line[1], strip_level(line[1], line[2]).err.kind)
                            EXCEPT !.detail = strip_level(line[1], line[2]).err.arg]
                /\ ipc' = "idle"
                /\ matches' = NoMatches
                /\ UNCHANGED <<stack, repo>>
        /\ ilog' = Append(ilog, [item |-> line, res |-> ires'])
    /\ UNCHANGED <<istart, isrc, jsonVars, commitVars, callVars>>

(* import_mail, lines 424-430: one iteration of the loop *)
MailPatch ==
    /\ ipc = "importing"
    /\ Len(ilog) < Len(isrc)
    /\ \E mail \in {NextItem(isrc, ilog)} :
        /\ PatchStep(mail[1], {}, {Len(ilog) + 1 < Len(isrc)})
        /\ ilog' = Append(ilog, [item |-> mail, res |-> ires'])
    /\ UNCHANGED <<istart, isrc, jsonVars, commitVars, callVars>>

SpecSeries == SeriesInit /\ [][RunListed \/ SeriesLine \/ MailPatch]_vars

---------------------------------------------------------------------------
(* Claims about StackState::commit, checked under SpecCommit               *)

Committed == cpc = "done" /\ cres.ok

ParentsOf(o) == Obj(odb, o).parents

TopOfApplied(s) ==
    IF s.applied = <<>> THEN s.head ELSE s.patches[s.applied[Len(s.applied)]].oid

(* The state committed just before the one commit() is running on *)
PrevStates == IF st.prev = None THEN {} ELSE {hist[i].state : i \in {Len(hist)}}

PrevIsLastCommit ==
    IsSome(st.prev) /\ Len(hist) > 0 /\ st.prev[1] = hist[Len(hist)].commit

Novelty ==
    ({st.head, TopOfApplied(st)}
        \cup {st.patches[n].oid : n \in Range(st.unapplied) \cup Range(st.hidden)})
      \ UNION {{p.patches[n].oid : n \in DOMAIN p.patches} : p \in PrevStates}

IsGrouping(o) ==
    /\ o \in DOMAIN odb
    /\ odb[o].kind = "commit"
    /\ odb[o].message = "parent grouping"

(* C2 (as claimed): neither the state commit nor any grouping commit that  *)
(* commit() writes has more than 16 parents, the simplified parent counted *)
(* among the parents of the state commit                                   *)
C2_GroupingBound ==
    \A o \in DOMAIN odb :
        odb[o].kind = "commit" => Len(odb[o].parents) <= MAX_PARENTS

(* C3: when no grouping is needed, the parents of the state commit are the *)
(* simplified parent first, then exactly the novelty set, each oid once    *)
C3_ParentsAreSimplifiedThenNovelty ==
    (Committed /\ loc.groups = <<>>)
        => /\ ParentsOf(cres.val)[1] = loc.simplified_parent
           /\ Range(SubSeq(ParentsOf(cres.val), 2, Len(ParentsOf(cres.val)))) = Novelty
           /\ Len(ParentsOf(cres.val)) = 1 + Cardinality(Novelty)

C3_Witness ==
    /\ Committed /\ loc.groups = <<>>
    /\ st.head # TopOfApplied(st)
    /\ Len(st.unapplied) > 1 /\ Len(st.hidden) > 0
    /\ Len(ParentsOf(cres.val)) > 4

(* The commits reachable from the state commit through at most k grouping  *)
(* commits: its parents, and the parents of grouping commits among them    *)
RECURSIVE ReachThroughGroups(_, _)
ReachThroughGroups(S, k) ==
    IF k = 0 THEN S
    ELSE ReachThroughGroups(
             S \cup UNION {Range(ParentsOf(g)) : g \in {o \in S : IsGrouping(o)}},
             k - 1)

(* C4: every oid of the novelty set is a parent of the state commit or a   *)
(* parent of a grouping commit reachable from it through grouping commits  *)
C4_NoveltyReachable ==
    Committed
        => \E reach \in {ReachThroughGroups(Range(ParentsOf(cres.val)),
                                            Len(loc.groups))} :
              Novelty \subseteq reach

C4_Witness ==
    /\ Committed
    /\ Len(loc.groups) = 2
    /\ Cardinality(Novelty) > 2 * MAX_PARENTS
    /\ \E o \in Novelty : o \notin Range(ParentsOf(cres.val))

(* What holds of the folding loop while it runs and when commit() has      *)
(* returned Ok: n is the size of the parent set                            *)
GroupingLoopState ==
    \E n \in {Cardinality(loc.parent_set)} :
        /\ \A o \in DOMAIN odb : IsGrouping(o) => Len(odb[o].parents) = MAX_PARENTS
        /\ (cpc = "group" \/ Committed) =>
              /\ Len(loc.parent_oids) = n - (MAX_PARENTS - 1) * Len(loc.groups)
              /\ \A i \in 1..Len(loc.groups) :
                    /\ IsGrouping(loc.groups[i])
                    /\ Len(ParentsOf(loc.groups[i])) = MAX_PARENTS
                    /\ Obj(odb, loc.groups[i]).tree = loc.meta_tree
              /\ n <= MAX_PARENTS =>
                    /\ loc.groups = <<>>
                    /\ Range(loc.parent_oids) = loc.parent_set
        /\ Committed =>
              /\ Len(loc.parent_oids) <= MAX_PARENTS
              /\ ParentsOf(cres.val) = <<loc.simplified_parent>> \o loc.parent_oids
              /\ Obj(odb, cres.val).tree = loc.meta_tree

(* C30: for every size n of the novelty set the folding loop of commit()   *)
(* terminates; each grouping commit it creates has exactly 16 parents and  *)
(* the tree of the state commit; on exit the list of non-simplified        *)
(* parents has at most 16 entries, and it is left as it was when n <= 16   *)
C30_GroupingLoop ==
    /\ []GroupingLoopState
    /\ (cpc = "group") ~> (cpc = "done")

C30_Witness ==
    /\ Committed
    /\ Len(loc.groups) = 2
    /\ Cardinality(loc.parent_set) = 2 * MAX_PARENTS
    /\ Len(loc.parent_oids) = 2
    /\ Len(ParentsOf(loc.groups[2])) = MAX_PARENTS

(* C5 (as claimed): over commit() calls in which each state's prev is the  *)
(* preceding state commit, the simplified parents form a chain: the first  *)
(* has no parent, each later one has exactly one parent, the simplified    *)
(* parent (first parent) of the previous state commit                      *)
C5_SimplifiedChain ==
    /\ (cpc = "done" /\ st.prev = None)
          => (cres.ok /\ ParentsOf(ParentsOf(cres.val)[1]) = <<>>)
    /\ (cpc = "done" /\ PrevIsLastCommit)
          => /\ cres.ok
             /\ ParentsOf(ParentsOf(cres.val)[1]) = <<ParentsOf(st.prev[1])[1]>>

(* Loading the state a state commit holds: peel to its tree, from_tree *)
LoadState(c) == from_tree(TreeStackJson(odb, Obj(odb, c).tree))

(* Following prev from state s for at most k steps: the state commits      *)
(* visited, or the error of the load that failed                           *)
RECURSIVE FollowPrev(_, _)
FollowPrev(s, k) ==
    IF s.prev = None \/ k = 0 THEN Ok(<<>>)
    ELSE IF ~LoadState(s.prev[1]).ok THEN LoadState(s.prev[1])
    ELSE LET rest == FollowPrev(LoadState(s.prev[1]).val, k - 1)
         IN  IF ~rest.ok THEN rest ELSE Ok(<<s.prev[1]>> \o rest.val)

(* C6 (as claimed): following prev from the current state visits the       *)
(* earlier state commits, newest first, each once, and ends at the state   *)
(* whose prev is None                                                      *)
C6_LogLinear ==
    (cpc \in {"start", "done"} /\ PrevIsLastCommit)
        => \E walk \in {FollowPrev(st, MaxCommits)} :
              /\ walk.ok
              /\ walk.val = [i \in 1..Len(hist) |-> hist[Len(hist) + 1 - i].commit]

PatchBlob(c, n) == get_path(odb, Obj(odb, c).tree, n)

(* C7 (as claimed): a patch with the same (name, oid) in a state and in    *)
(* its previous state has the same blob id under patches/<name> in both    *)
(* state trees; a new patch or one whose oid changed has the blob built    *)
(* from its own commit                                                     *)
C7_BlobReuse ==
    (cpc = "done" /\ PrevIsLastCommit)
        => /\ cres.ok
           /\ \A n \in DOMAIN st.patches :
                 IF \E p \in PrevStates :
                        n \in DOMAIN p.patches /\ p.patches[n].oid = st.patches[n].oid
                 THEN PatchBlob(cres.val, n) = PatchBlob(st.prev[1], n)
                 ELSE /\ PatchBlob(cres.val, n).ok
                      /\ odb[PatchBlob(cres.val, n).val]
                           = PatchMetaBlob(odb, st.patches[n].oid)

---------------------------------------------------------------------------
(* Claims about serialisation and loading                                  *)

(* C1 (as claimed): deserialising the stack.json produced by serialising a *)
(* valid StackState succeeds and yields a state equal to it in every field *)
C1_RoundTrip ==
    jPc = "deserialised" => (jOut.ok /\ jOut.val = jIn)

LoadResolved == IF IsSome(jLoad.branch) THEN jLoad.branch[1] \in jLoad.branches
                ELSE jLoad.head_is_branch

LoadBranch == IF IsSome(jLoad.branch) THEN jLoad.branch[1] ELSE jLoad.head

LoadNoRef == jPc = "loaded" /\ LoadResolved /\ ~jLoad.stack_ref

LoadNoJson ==
    jPc = "loaded" /\ LoadResolved /\ jLoad.stack_ref /\ jLoad.stack_json = None

LoadBadVersion ==
    /\ jPc = "loaded" /\ LoadResolved /\ jLoad.stack_ref
    /\ IsSome(jLoad.stack_json)
    /\ jLoad.stack_json[1].version.t = "int"
    /\ jLoad.stack_json[1].version.text # "5"

(* C8 (as claimed): when the stack ref does not exist, when the state tree *)
(* has no stack.json, or when stack.json carries a version other than 5,   *)
(* loading fails with the "stack not initialised" error naming the branch  *)
C8_NotInitialisedInEachCase ==
    (LoadNoRef \/ LoadNoJson \/ LoadBadVersion)
        => /\ ~jOut.ok
           /\ jOut.err.kind = "StGitStackNotInitialized"
           /\ jOut.err.arg = LoadBranch

(* C8 (amended): in each of the three cases loading fails and returns no   *)
(* StackState; the error is "stack not initialised" naming the branch only *)
(* when the stack ref does not exist, it is StGitStackMetadataNotFound     *)
(* when stack.json is absent and a JsonError when the version is not 5     *)
C8_LoadFailsByCase ==
    /\ LoadNoRef => /\ ~jOut.ok
                    /\ jOut.err.kind = "StGitStackNotInitialized"
                    /\ jOut.err.arg = LoadBranch
    /\ LoadNoJson => (~jOut.ok /\ jOut.err.kind = "StGitStackMetadataNotFound")
    /\ LoadBadVersion => (~jOut.ok /\ jOut.err.kind = "JsonError")

C8_Witness ==
    LoadBadVersion /\ IsSome(jLoad.branch) /\ Len(jIn.applied) > 0 /\ ~jOut.ok

---------------------------------------------------------------------------
(* Claims about the import pipeline, checked under SpecImport              *)

(* C9: starting from a valid stack, after any sequence of successful       *)
(* imports under any collision policy and with any candidate names, the    *)
(* applied, unapplied and hidden lists are duplicate-free and pairwise     *)
(* disjoint, and their union is the domain of the patches map.             *)
C9_DomainClosure ==
    /\ NoDup(stack.state.applied)
    /\ NoDup(stack.state.unapplied)
    /\ NoDup(stack.state.hidden)
    /\ Range(stack.state.applied) \cap Range(stack.state.unapplied) = {}
    /\ Range(stack.state.applied) \cap Range(stack.state.hidden) = {}
    /\ Range(stack.state.unapplied) \cap Range(stack.state.hidden) = {}
    /\ DOMAIN stack.state.patches =
         Range(stack.state.applied) \cup Range(stack.state.unapplied)
            \cup Range(stack.state.hidden)

(* An import under --replace has succeeded with a candidate name that an  *)
(* unapplied patch had: that patch's commit is no longer in the stack, the *)
(* name is applied on top of another patch, and the stack hides a patch.   *)
C9_Witness ==
    /\ ires.ok /\ ires.outcome = "imported"
    /\ ires.patchname = ires.candidate
    /\ \E i \in 1..Len(repo) :
          /\ repo[i].kind = "patch"
          /\ \A pn \in DOMAIN stack.state.patches : stack.state.patches[pn].oid # i
    /\ Len(stack.state.applied) >= 2
    /\ Len(stack.state.hidden) >= 1

(* C10: after a successful import transaction the branch tip is the commit *)
(* of the last applied patch (head when nothing is applied),               *)
(* StackState::top returns that commit, and it is the commit created for   *)
(* the imported patch.                                                     *)
C10_HeadConsistency ==
    (ires.ok /\ ires.outcome = "imported") =>
        /\ stack.branch_head =
             IF Len(stack.state.applied) > 0
             THEN stack.state.patches[
                    stack.state.applied[Len(stack.state.applied)]].oid
             ELSE stack.state.head
        /\ top(stack.state) = stack.branch_head
        /\ top(stack.state) = ires.commit_id
        /\ repo[ires.commit_id].kind = "import"

(* A patch was imported on top of other applied patches. *)
C10_Witness ==
    /\ ires.ok /\ ires.outcome = "imported"
    /\ Len(stack.state.applied) >= 2
    /\ stack.state.patches[stack.state.applied[1]].oid # ires.commit_id
    /\ stack.branch_head = ires.commit_id

C14_StripErrorNoChange ==
    (~ires.ok /\ ires.err = "unsupported strip level") =>
        /\ ires.detail[1] = ires.candidate
        /\ ires.detail[2] \in {e[1] : e \in ExtraFields \ {None}}
        /\ ires.detail[2] # <<"-", "p", "0">>
        /\ stack = istart

(* The names of the patches the items of log created, in the log's order *)
CreatedNames(log) ==
    [k \in 1..Len(SelectSeq(log, LAMBDA e : e.res.outcome = "imported")) |->
        SelectSeq(log, LAMBDA e : e.res.outcome = "imported")[k].res.patchname]

FullySuccessful ==
    /\ ipc = "idle"
    /\ isrc # <<>>
    /\ Len(ilog) = Len(isrc)
    /\ \A k \in 1..Len(ilog) : ilog[k].res.ok

(* C15: the items of a series file or an mbox are taken in the input's    *)
(* order; once every item is imported without an error, the patches the   *)
(* run created are the end of applied, in the order of their items; and    *)
(* an item is only taken when the one before it is completed: its result   *)
(* is Ok, and the patch it created is the top of the stack, bound to the   *)
(* commit made for it.                                                     *)
C15_ImportOrder ==
    /\ [](/\ \A k \in 1..Len(ilog) : ilog[k].item = isrc[k]
          /\ FullySuccessful =>
                stack.state.applied = istart.state.applied \o CreatedNames(ilog))
    /\ [][Len(ilog') # Len(ilog) =>
            /\ Len(ilog') = Len(ilog) + 1
            /\ ilog # <<>> =>
                /\ ilog[Len(ilog)].res.ok
                /\ ilog[Len(ilog)].res.outcome = "imported" =>
                    /\ stack.state.applied # <<>>
                    /\ top(stack.state) = ilog[Len(ilog)].res.commit_id
                    /\ stack.state.applied[Len(stack.state.applied)]
                          = ilog[Len(ilog)].res.patchname]_vars

C15_Witness ==
    /\ FullySuccessful
    /\ istart.state.applied # <<>>
    /\ Len(ilog) = 2
    /\ ilog[1].res.outcome = "imported"
    /\ ilog[2].res.outcome = "imported"
    /\ ilog[1].res.patchname # ilog[2].res.patchname
    /\ ilog[1].item # ilog[2].item

(* C18: with neither --ignore nor --replace, the name a patch is created  *)
(* under is no name of the stack it is added to (so that the transaction   *)
(* never rejects it), it is the candidate when the candidate is not in the *)
(* stack, and it is none of the names the run has created before.          *)
C18_DefaultPolicy ==
    [][(Len(ilog') = Len(ilog) + 1 /\ ~matches.ignore /\ ~matches.replace) =>
        /\ ires'.err # "Invariant"
        /\ ires'.outcome = "imported" =>
            /\ ires'.patchname \notin Range(all_patches(stack.state))
            /\ ires'.candidate \notin Range(all_patches(stack.state)) =>
                    ires'.patchname = ires'.candidate
            /\ \A k \in 1..Len(ilog) :
                    ilog[k].res.outcome = "imported" =>
                        ilog[k].res.patchname # ires'.patchname]_vars

C18_Witness ==
    /\ Len(ilog) = 2
    /\ ilog[1].res.outcome = "imported"
    /\ ilog[2].res.outcome = "imported"
    /\ ilog[1].res.candidate = ilog[2].res.candidate
    /\ ilog[1].res.patchname # ilog[2].res.patchname
    /\ ilog[2].res.patchname # ilog[2].res.candidate
    /\ istart.state.unapplied # <<>>
    /\ stack.state.applied = istart.state.applied \o CreatedNames(ilog)

(* C19: with --ignore, a create_patch call whose candidate is an applied  *)
(* patch returns Ok with the stack and the repository as they were, and    *)
(* the loop goes on to the next item if there is one; a candidate that is  *)
(* not applied is not skipped, and the patch it creates has the            *)
(* candidate's name.                                                       *)
C19_IgnorePolicy ==
    [][(/\ Len(ilog') = Len(ilog) + 1
        /\ matches.ignore
        /\ ires'.outcome # "none"
        /\ ires'.err # "unsupported strip level") =>
        IF ires'.candidate \in Range(stack.state.applied)
        THEN /\ stack' = stack
             /\ repo' = repo
             /\ ires'.ok
             /\ ires'.outcome = "ignored"
             /\ Len(ilog') < Len(isrc) => (ipc' = ipc /\ matches' = matches)
        ELSE /\ ires'.outcome # "ignored"
             /\ ires'.outcome = "imported" => ires'.patchname = ires'.candidate]_vars

C19_Witness ==
    /\ Len(ilog) = 2
    /\ ilog[1].res.outcome = "ignored"
    /\ ilog[1].res.candidate \in Range(istart.state.applied)
    /\ ilog[2].res.outcome = "imported"
    /\ ilog[2].res.patchname = ilog[2].res.candidate
    /\ stack.state.applied = Append(istart.state.applied, ilog[2].res.candidate)
    /\ Imported(repo) = 1

(* C20: with --replace, importing under the name of an unapplied patch is *)
(* not rejected by the transaction; when it succeeds, one transaction has  *)
(* taken the old patch out of unapplied and put the name at the end of     *)
(* applied: the name is in the stack once, as the last applied patch, on   *)
(* the commit the import created, and the other patches are where they     *)
(* were.                                                                   *)
C20_ReplacePolicy ==
    [][(/\ Len(ilog') = Len(ilog) + 1
        /\ matches.replace
        /\ ires'.outcome \in {"imported", "failed"}
        /\ ires'.candidate \in Range(stack.state.unapplied)) =>
        /\ ires'.err # "Invariant"
        /\ ires'.outcome = "imported" =>
            /\ ires'.patchname = ires'.candidate
            /\ Cardinality({i \in 1..Len(all_patches(stack'.state)) :
                    all_patches(stack'.state)[i] = ires'.patchname}) = 1
            /\ stack'.state.applied = Append(stack.state.applied, ires'.patchname)
            /\ stack'.state.unapplied
                  = SelectSeq(stack.state.unapplied, LAMBDA pn : pn # ires'.patchname)
            /\ stack'.state.hidden = stack.state.hidden
            /\ DOMAIN stack'.state.patches = DOMAIN stack.state.patches
            /\ stack'.state.patches[ires'.patchname].oid = ires'.commit_id
            /\ ires'.commit_id = Len(repo) + 1
            /\ repo'[ires'.commit_id].kind = "import"
            /\ stack'.state.patches[ires'.patchname].oid
                  # stack.state.patches[ires'.patchname].oid
            /\ Len(repo') = Len(repo) + 2
            /\ stack'.state.prev = stack.state_ref]_vars

C20_Witness ==
    /\ ilog # <<>>
    /\ ilog[Len(ilog)].res.outcome = "imported"
    /\ ilog[Len(ilog)].res.candidate \in Range(istart.state.unapplied)
    /\ ilog[Len(ilog)].res.patchname = ilog[Len(ilog)].res.candidate
    /\ ilog[Len(ilog)].res.patchname \notin Range(stack.state.unapplied)
    /\ stack.state.applied[Len(stack.state.applied)] = ilog[Len(ilog)].res.patchname
    /\ stack.state.patches[ilog[Len(ilog)].res.patchname].oid
          = ilog[Len(ilog)].res.commit_id
    /\ repo[ilog[Len(ilog)].res.commit_id].kind = "import"

(* C24: a create_patch call whose diff does not apply adds one (empty)    *)
(* patch to the end of applied.                                            *)
C24_FailedApplyAddsPatch ==
    [][(ipc \in {"importing", "series"} /\ ires'.err = "apply") =>
        /\ Len(stack'.state.applied) = Len(stack.state.applied) + 1
        /\ SubSeq(stack'.state.applied, 1, Len(stack.state.applied))
              = stack.state.applied]_vars

---------------------------------------------------------------------------
(* main.rs: exit_with_result                                               *)

GENERAL_ERROR == 1

COMMAND_ERROR == 2

CONFLICT_ERROR == 3

(* The errors a command's Result may hold, by the type downcast_ref finds. *)
(* Context wrapped around an error does not hide its type from            *)
(* downcast_ref.                                                           *)
CommandErrors ==
    [type : {"clap::Error"}, use_stderr : BOOLEAN]
    \cup [type : {"TransactionError"}, variant : {"TransactionHalt"},
          conflicts : BOOLEAN]
    \cup [type : {"TransactionError"}, variant : {"CheckoutConflicts"}]
    \cup [type : {"cmd::Error"}, variant : {"CausedConflicts", "Other"}]
    \cup [type : {"other"}]

CommandResults(maxContext) ==
    {[ok |-> TRUE]}
    \cup {[ok |-> FALSE, err |-> e, context |-> c] :
            e \in CommandErrors, c \in 0..maxContext}

ColorChoices ==
    {None} \cup {Some(c) : c \in {"Always", "AlwaysAnsi", "Auto", "Never"}}

Exited(code, printed) == [code |-> code, printed |-> printed]

(* lines 241-279; printed lists what was written before the exit *)
exit_with_result(result, color_choice) ==
    IF result.ok THEN Exited(0, <<>>)
    ELSE IF result.err.type = "clap::Error"
    THEN Exited(IF result.err.use_stderr THEN GENERAL_ERROR ELSE 0, <<"clap_err">>)
    ELSE IF result.err.type = "TransactionError"
    THEN IF result.err.variant = "TransactionHalt"
         THEN Exited(CONFLICT_ERROR,
                     IF result.err.conflicts
                     THEN <<"error_message", "merge_conflicts">>
                     ELSE <<"error_message">>)
         ELSE Exited(CONFLICT_ERROR, <<"error_message">>)
    ELSE IF result.err.type = "cmd::Error"
    THEN IF result.err.variant = "CausedConflicts"
         THEN Exited(CONFLICT_ERROR, <<"error_message">>)
         ELSE Exited(COMMAND_ERROR, <<"error_message">>)
    ELSE Exited(COMMAND_ERROR, <<"error_message">>)

ExitInit ==
    /\ callArgs \in [fn : {"exit_with_result"},
                     result : CommandResults(MaxContext),
                     color_choice : ColorChoices]
    /\ callRet = <<>>
    /\ callPc = "args"
    /\ JsonIdle
    /\ CommitIdle
    /\ ImportIdle

ExitWithResult ==
    /\ callPc = "args"
    /\ callArgs.fn = "exit_with_result"
    /\ callRet' = exit_with_result(callArgs.result, callArgs.color_choice)
    /\ callPc' = "returned"
    /\ UNCHANGED <<callArgs, jsonVars, commitVars, importVars>>

SpecExit == ExitInit /\ [][ExitWithResult]_vars

(* C12: success exits 0; the exit code is 3 exactly for a TransactionHalt   *)
(* with conflicts = true, a CheckoutConflicts or a CausedConflicts; a clap  *)
(* error exits 1, or 0 when it is a help or version display; every other   *)
(* error exits 2.                                                          *)
C12_ExitCodes ==
    (callPc = "returned" /\ callArgs.fn = "exit_with_result") =>
        LET r == callArgs.result
            conflict ==
                /\ ~r.ok
                /\ \/ /\ r.err.type = "TransactionError"
                      /\ r.err.variant = "TransactionHalt"
                      /\ r.err.conflicts
                   \/ /\ r.err.type = "TransactionError"
                      /\ r.err.variant = "CheckoutConflicts"
                   \/ /\ r.err.type = "cmd::Error"
                      /\ r.err.variant = "CausedConflicts"
        IN  /\ r.ok => callRet.code = 0
            /\ (callRet.code = CONFLICT_ERROR) <=> conflict
            /\ (~r.ok /\ r.err.type = "clap::Error") =>
                    callRet.code = IF r.err.use_stderr THEN GENERAL_ERROR ELSE 0
            /\ (~r.ok /\ r.err.type # "clap::Error" /\ ~conflict) =>
                    callRet.code = COMMAND_ERROR

---------------------------------------------------------------------------
(* import.rs: the name of the patch (create_patch 551-574, stripname)      *)
(*                                                                         *)
(* A name is the sequence of its pieces: letters, digits, '-' and the two  *)
(* extensions, no piece being a part of another.                           *)

NameAlphabet == {"a", "1", "-", ".diff", ".patch"}

Strings(alphabet, maxLen) == UNION { [1..n -> alphabet] : n \in 0..maxLen }

(* str::trim_start_matches(|c| c.is_ascii_digit() || c == '-') *)
RECURSIVE trim_start_matches(_)
trim_start_matches(name) ==
    IF name # <<>> /\ name[1] \in {"1", "-"}
    THEN trim_start_matches(Tail(name))
    ELSE name

(* str::rsplit_once: the parts before and after the last pat, if any *)
rsplit_once(name, pat) ==
    IF \E i \in 1..Len(name) : name[i] = pat
    THEN Some(<<SubSeq(name, 1, (CHOOSE i \in 1..Len(name) :
                                    /\ name[i] = pat
                                    /\ \A j \in (i + 1)..Len(name) : name[j] # pat) - 1),
                SubSeq(name, (CHOOSE i \in 1..Len(name) :
                                    /\ name[i] = pat
                                    /\ \A j \in (i + 1)..Len(name) : name[j] # pat) + 1,
                       Len(name))>>)
    ELSE None

(* stripname, lines 655-662: map_or_else(default, f) on the result of      *)
(* rsplit_once(".diff"); the default closure splits name, the parameter.   *)
stripname(name) ==
    IF IsSome(rsplit_once(trim_start_matches(name), ".diff"))
    THEN rsplit_once(trim_start_matches(name), ".diff")[1][1]
    ELSE IF IsSome(rsplit_once(name, ".patch"))
    THEN rsplit_once(name, ".patch")[1][1]
    ELSE name

(* PatchName::make(raw, allow_long, len_limit): the call, as it is made;   *)
(* the name it makes of raw is not computed here.                          *)
make(raw, allow_long) == [raw |-> raw, allow_long |-> allow_long]

(* Path::file_name().and_then(|name| name.to_str()) of a source path, a    *)
(* path being given by the file name it has, if it has one                 *)
file_name(source_path) == source_path.file_name

(* create_patch, lines 551-574: the PatchName of the import before the     *)
(* collision policy                                                        *)
patchname_of(header_patchname, opt_name, source_path, opt_stripname, message) ==
    \* lines 551-559
    LET patchname == IF IsSome(header_patchname) THEN header_patchname
                     ELSE IF IsSome(opt_name) THEN opt_name
                     ELSE IF IsSome(source_path) THEN file_name(source_path[1])
                     ELSE None
        \* lines 561-565
        stripped == IF opt_stripname /\ IsSome(patchname)
                    THEN Some(stripname(patchname[1]))
                    ELSE patchname
    IN  \* lines 570-574
        IF IsSome(stripped) THEN make(stripped[1], FALSE)
        ELSE make(message, TRUE)

(* The header name is None or a non-empty value (lines 732-740); --name    *)
(* may be given an empty value; a path has a non-empty file name or none.  *)
NameCalls(maxNameLen, maxSourceLen) ==
    [fn : {"stripname"}, name : Strings(NameAlphabet, maxNameLen)]
    \cup
    [fn : {"create_patch"},
     header_patchname : {None} \cup {Some(n) : n \in Strings({"a", "1"}, maxSourceLen) \ {<<>>}},
     opt_name : {None} \cup {Some(n) : n \in Strings({"a", "1"}, maxSourceLen)},
     source_path : {None} \cup
                   {Some([file_name |-> f]) :
                       f \in {None} \cup {Some(n) : n \in Strings({"a", "1"}, maxSourceLen) \ {<<>>}}},
     opt_stripname : BOOLEAN,
     message : Strings({"a", "1"}, maxSourceLen)]

NameInit ==
    /\ callArgs \in NameCalls(MaxNameLen, MaxSourceLen)
    /\ callRet = <<>>
    /\ callPc = "args"
    /\ JsonIdle
    /\ CommitIdle
    /\ ImportIdle

Stripname ==
    /\ callPc = "args"
    /\ callArgs.fn = "stripname"
    /\ callRet' = stripname(callArgs.name)
    /\ callPc' = "returned"
    /\ UNCHANGED <<callArgs, jsonVars, commitVars, importVars>>

PatchNameOf ==
    /\ callPc = "args"
    /\ callArgs.fn = "create_patch"
    /\ callRet' = patchname_of(callArgs.header_patchname, callArgs.opt_name,
                               callArgs.source_path, callArgs.opt_stripname,
                               callArgs.message)
    /\ callPc' = "returned"
    /\ UNCHANGED <<callArgs, jsonVars, commitVars, importVars>>

SpecName == NameInit /\ [][Stripname \/ PatchNameOf]_vars

(* C16: the name is made from the first non-empty of the header Patch:    *)
(* name, the --name value and the source file's name (stripped with        *)
(* --stripname), and from the message only when all of these are absent or *)
(* empty.                                                                  *)
C16_NamePrecedence ==
    (callPc = "returned" /\ callArgs.fn = "create_patch") =>
        LET NonEmpty(o) == IsSome(o) /\ o[1] # <<>>
            first == IF NonEmpty(callArgs.header_patchname)
                     THEN callArgs.header_patchname
                     ELSE IF NonEmpty(callArgs.opt_name) THEN callArgs.opt_name
                     ELSE IF IsSome(callArgs.source_path)
                             /\ NonEmpty(file_name(callArgs.source_path[1]))
                     THEN file_name(callArgs.source_path[1])
                     ELSE None
        IN  callRet = IF IsSome(first)
                      THEN make(IF callArgs.opt_stripname
                                THEN stripname(first[1]) ELSE first[1], FALSE)
                      ELSE make(callArgs.message, TRUE)

(* C17: stripname returns the name without its leading digits and '-' and *)
(* then without one .diff or .patch at its end, whatever the name ends in. *)
C17_Stripname ==
    (callPc = "returned" /\ callArgs.fn = "stripname") =>
        LET t == trim_start_matches(callArgs.name)
        IN  callRet = IF t # <<>> /\ t[Len(t)] \in {".diff", ".patch"}
                      THEN SubSeq(t, 1, Len(t) - 1)
                      ELSE t

---------------------------------------------------------------------------
(* import.rs: from the input to the arguments of create_patch              *)
(* (author 589-603, import_file 486-524, import_mail 424-430,              *)
(* Headers::parse_mailinfo, Headers::parse_message)                        *)

(* signature::parse_time: the time a date text stands for *)
parse_time(date) ==
    IF date = "garbage" THEN Err("invalid date", date) ELSE Ok([time |-> date])

Signature(name, email, when) == [name |-> name, email |-> email, when |-> when]

(* create_patch, lines 589-603 *)
author(author_name, author_email, author_date, default_author) ==
    LET time == IF IsSome(author_date) /\ parse_time(author_date[1]).ok
                THEN Some(parse_time(author_date[1]).val)
                ELSE None
    IN  IF IsSome(author_name) /\ IsSome(author_email) /\ IsSome(time)
        THEN Ok(Signature(author_name[1], author_email[1], time[1]))
        ELSE IF IsSome(author_name) /\ IsSome(author_email)
        THEN Ok(Signature(author_name[1], author_email[1], "now"))
        ELSE IF IsSome(time)
        THEN IF default_author.ok
             THEN Ok(Signature(default_author.val.name, default_author.val.email,
                               time[1]))
             ELSE default_author
        ELSE default_author

NoHeaders ==
    [patchname |-> None, author_name |-> None, author_email |-> None,
     author_date |-> None, subject |-> None]

(* A line of the header block mailinfo writes: "header: value", or an     *)
(* empty line; a value is UTF-8 or it is not.                              *)
MailinfoLines ==
    {[header |-> "", value |-> "", utf8 |-> TRUE]}
    \cup [header : {"Author", "Email", "Date", "Subject", "X-Other"},
          value : {"v"}, utf8 : BOOLEAN]

(* Headers::parse_mailinfo, lines 680-698: the loop over the lines, from   *)
(* line i on; seen holds the four Option<String> of lines 675-678          *)
RECURSIVE parse_mailinfo_loop(_, _, _)
parse_mailinfo_loop(lines, i, seen) ==
    IF i > Len(lines) THEN Ok(seen)
    ELSE IF lines[i].header = "" THEN parse_mailinfo_loop(lines, i + 1, seen)
    ELSE IF ~lines[i].utf8 THEN parse_mailinfo_loop(lines, i + 1, seen)
    ELSE IF lines[i].header = "Author"
    THEN parse_mailinfo_loop(lines, i + 1,
                             [seen EXCEPT !.author_name = Some(lines[i].value)])
    ELSE IF lines[i].header = "Email"
    THEN parse_mailinfo_loop(lines, i + 1,
                             [seen EXCEPT !.author_email = Some(lines[i].value)])
    ELSE IF lines[i].header = "Date"
    THEN parse_mailinfo_loop(lines, i + 1,
                             [seen EXCEPT !.author_date = Some(lines[i].value)])
    ELSE IF lines[i].header = "Subject"
    THEN parse_mailinfo_loop(lines, i + 1,
                             [seen EXCEPT !.subject = Some(lines[i].value)])
    ELSE Err("panic", "unexpected mailinfo header")

(* Headers::parse_mailinfo, lines 674-715: Ok(Option<Headers>), or the     *)
(* panic of line 691                                                       *)
parse_mailinfo(lines) ==
    IF ~parse_mailinfo_loop(lines, 1, NoHeaders).ok
    THEN parse_mailinfo_loop(lines, 1, NoHeaders)
    ELSE IF parse_mailinfo_loop(lines, 1, NoHeaders).val # NoHeaders
    THEN Ok(Some(parse_mailinfo_loop(lines, 1, NoHeaders).val))
    ELSE Ok(None)

(* A line of a message: indent is a leading "    ", key the text before   *)
(* its first ':' ("" when it has none), text the trimmed text after it.    *)
MessageLines ==
    [indent : {FALSE}, key : {""}, text : {"", "commit 0123abc", "text"}]
    \cup [indent : {TRUE}, key : {""}, text : {"text"}]
    \cup [indent : {FALSE}, key : {"Patch"}, text : {"name", ""}]
    \cup [indent : {FALSE}, key : {"From", "Date", "Key"}, text : {"value"}]

(* Headers::parse_message, lines 723-780: the while loop from line i on;   *)
(* .rest is the line the for loop of line 782 starts with                  *)
RECURSIVE parse_message_loop(_, _, _, _)
parse_message_loop(lines, i, headers, dedent) ==
    IF i > Len(lines)
    THEN [headers |-> headers, dedent |-> dedent, rest |-> i]
    ELSE IF lines[i].key = "" /\ lines[i].text = ""
    THEN parse_message_loop(lines, i + 1, headers, dedent)
    ELSE IF lines[i].key = "Patch" /\ lines[i].text # ""
    THEN parse_message_loop(lines, i + 1,
            [headers EXCEPT !.patchname = Some(lines[i].text)], dedent)
    ELSE IF lines[i].key \in {"From", "Author"}
    THEN parse_message_loop(lines, i + 1,
            [headers EXCEPT !.author_name = Some("name of " \o lines[i].text),
                            !.author_email = Some("email of " \o lines[i].text)],
            dedent)
    ELSE IF lines[i].key = "Date"
    THEN parse_message_loop(lines, i + 1,
            [headers EXCEPT !.author_date = Some(lines[i].text)], dedent)
    ELSE IF IsSome(headers.subject)
    THEN [headers |-> headers, dedent |-> dedent, rest |-> i + 1]
    ELSE IF lines[i].key = "" /\ lines[i].text = "commit 0123abc"
    THEN parse_message_loop(lines, i + 1, headers, TRUE)
    ELSE parse_message_loop(lines, i + 1,
            [headers EXCEPT !.subject =
                Some(IF lines[i].key = "" THEN lines[i].text
                     ELSE lines[i].key \o ": " \o lines[i].text)], dedent)

(* line 783: line.strip_prefix(dedent).unwrap_or(line) *)
strip_prefix(line, dedent) ==
    IF dedent /\ line.indent THEN [line EXCEPT !.indent = FALSE] ELSE line

(* lines 717-787 with the Date header left out of the result *)
parse_message_undated(lines) ==
    [headers |-> [parse_message_loop(lines, 1, NoHeaders, FALSE).headers
                    EXCEPT !.author_date = None],
     message |-> <<>>]

(* Headers::parse_message, lines 717-787, for messages that are UTF-8 and  *)
(* whose From/Author values parse: (headers, split_message)                *)
parse_message(lines) ==
    [headers |-> parse_message_loop(lines, 1, NoHeaders, FALSE).headers,
     message |->
        [k \in 1..(Len(lines) + 1 - parse_message_loop(lines, 1, NoHeaders, FALSE).rest) |->
            strip_prefix(lines[parse_message_loop(lines, 1, NoHeaders, FALSE).rest + k - 1],
                         parse_message_loop(lines, 1, NoHeaders, FALSE).dedent)]]

(* import_file, lines 486-513, from the result of mailinfo on: the        *)
(* headers, message and diff given to create_patch                         *)
import_file(mailinfo_result) ==
    LET recovered == IF ~mailinfo_result.ok
                        /\ mailinfo_result.err.kind = "error: empty patch"
                     THEN Ok([mailinfo |-> <<>>, message |-> <<>>, diff |-> <<>>])
                     ELSE mailinfo_result
    IN  IF ~recovered.ok THEN recovered
        ELSE IF ~parse_mailinfo(recovered.val.mailinfo).ok
        THEN parse_mailinfo(recovered.val.mailinfo)
        ELSE IF IsSome(parse_mailinfo(recovered.val.mailinfo).val)
        THEN Ok([headers |-> parse_mailinfo(recovered.val.mailinfo).val[1],
                 message |-> recovered.val.message,
                 diff |-> recovered.val.diff])
        ELSE Ok([headers |-> parse_message(recovered.val.message).headers,
                 message |-> parse_message(recovered.val.message).message,
                 diff |-> recovered.val.diff])

(* import_mail, lines 427-429, for one of the split mails *)
import_mail(mailinfo_result) ==
    IF ~mailinfo_result.ok THEN mailinfo_result
    ELSE IF ~parse_mailinfo(mailinfo_result.val.mailinfo).ok
    THEN parse_mailinfo(mailinfo_result.val.mailinfo)
    ELSE Ok([headers |-> IF IsSome(parse_mailinfo(mailinfo_result.val.mailinfo).val)
                         THEN parse_mailinfo(mailinfo_result.val.mailinfo).val[1]
                         ELSE NoHeaders,
             message |-> mailinfo_result.val.message,
             diff |-> mailinfo_result.val.diff])

(* The calls of the functions of this section; what mailinfo returns is   *)
(* its three outputs or an error, "error: empty patch" being one.          *)
ParseCalls(maxLines, maxHeaderLines, maxBlockLines) ==
    [fn : {"import_file", "import_mail"},
     mailinfo_result :
        {Ok(o) : o \in [mailinfo : UNION {[1..n -> MailinfoLines] : n \in 0..maxBlockLines},
                        message : UNION {[1..n -> MessageLines] : n \in 0..maxHeaderLines},
                        diff : {<<"diff">>}]}
        \cup {Err("error: empty patch", ""), Err("mailinfo failed", "")}]
    \cup
    [fn : {"parse_mailinfo"},
     headers : UNION {[1..n -> MailinfoLines] : n \in 0..maxHeaderLines}]
    \cup
    [fn : {"parse_message"},
     message : UNION {[1..n -> MessageLines] : n \in 0..maxLines}]
    \cup
    [fn : {"author"},
     author_name : {None, Some("A U Thor")},
     author_email : {None, Some("author@example.com")},
     author_date : {None, Some("2021-01-01"), Some("garbage")},
     \* git2::Signature::default_author: the configured identity at the
     \* time of the call, or an error when none is configured
     default_author : {Ok(Signature("default name", "default email", "now")),
                       Err("no identity", "")}]

ParseInit ==
    /\ callArgs \in ParseCalls(MaxMessageLines, MaxHeaderLines, MaxBlockLines)
    /\ callRet = <<>>
    /\ callPc = "args"
    /\ JsonIdle
    /\ CommitIdle
    /\ ImportIdle

Author ==
    /\ callPc = "args"
    /\ callArgs.fn = "author"
    /\ callRet' = author(callArgs.author_name, callArgs.author_email,
                         callArgs.author_date, callArgs.default_author)
    /\ callPc' = "returned"
    /\ UNCHANGED <<callArgs, jsonVars, commitVars, importVars>>

ParseMailinfo ==
    /\ callPc = "args"
    /\ callArgs.fn = "parse_mailinfo"
    /\ callRet' = parse_mailinfo(callArgs.headers)
    /\ callPc' = "returned"
    /\ UNCHANGED <<callArgs, jsonVars, commitVars, importVars>>

ParseMessage ==
    /\ callPc = "args"
    /\ callArgs.fn = "parse_message"
    /\ callRet' = parse_message(callArgs.message)
    /\ callPc' = "returned"
    /\ UNCHANGED <<callArgs, jsonVars, commitVars, importVars>>

ImportFile ==
    /\ callPc = "args"
    /\ callArgs.fn = "import_file"
    /\ callRet' = import_file(callArgs.mailinfo_result)
    /\ callPc' = "returned"
    /\ UNCHANGED <<callArgs, jsonVars, commitVars, importVars>>

ImportMail ==
    /\ callPc = "args"
    /\ callArgs.fn = "import_mail"
    /\ callRet' = import_mail(callArgs.mailinfo_result)
    /\ callPc' = "returned"
    /\ UNCHANGED <<callArgs, jsonVars, commitVars, importVars>>

SpecParse ==
    ParseInit
    /\ [][Author \/ ParseMailinfo \/ ParseMessage \/ ImportFile \/ ImportMail]_vars

(* C21: the author of the patch has every field the headers give (the     *)
(* date when it parses) and the default signature's field for every field  *)
(* they do not give.                                                       *)
C21_Authorship ==
    (callPc = "returned" /\ callArgs.fn = "author" /\ callRet.ok) =>
        /\ callRet.val.name = IF IsSome(callArgs.author_name)
                              THEN callArgs.author_name[1]
                              ELSE callArgs.default_author.val.name
        /\ callRet.val.email = IF IsSome(callArgs.author_email)
                               THEN callArgs.author_email[1]
                               ELSE callArgs.default_author.val.email
        /\ callRet.val.when = IF IsSome(callArgs.author_date)
                                 /\ parse_time(callArgs.author_date[1]).ok
                              THEN parse_time(callArgs.author_date[1]).val
                              ELSE "now"

(* C27: parse_mailinfo ends in its hard error whenever a non-empty line    *)
(* has a header other than Author, Email, Date and Subject, whatever the   *)
(* line's value; otherwise it returns None exactly when none of the four   *)
(* is in the block, and else Some with the field of every header in the   *)
(* block set and no patchname.                                             *)
C27_ParseMailinfo ==
    (callPc = "returned" /\ callArgs.fn = "parse_mailinfo") =>
        LET Observed(h) == \E i \in 1..Len(callArgs.headers) :
                                callArgs.headers[i].header = h
        IN  IF Observed("X-Other") THEN ~callRet.ok
            ELSE /\ callRet.ok
                 /\ callRet.val = None <=>
                        ~\E h \in {"Author", "Email", "Date", "Subject"} : Observed(h)
                 /\ IsSome(callRet.val) =>
                     /\ callRet.val[1].patchname = None
                     /\ Observed("Author") => IsSome(callRet.val[1].author_name)
                     /\ Observed("Email") => IsSome(callRet.val[1].author_email)
                     /\ Observed("Date") => IsSome(callRet.val[1].author_date)
                     /\ Observed("Subject") => IsSome(callRet.val[1].subject)

(* A line that parse_message takes as a header wherever it stands in the  *)
(* header section                                                          *)
HeaderLine(line) ==
    \/ line.key = "Patch" /\ line.text # ""
    \/ line.key \in {"From", "Author", "Date"}

(* The lines that are neither empty nor a header from line i on; the first *)
(* of them that is no "commit <hex>" line is the subject, the first after  *)
(* the subject ends the header section.                                    *)
TextLinesFrom(lines, i) ==
    {k \in i..Len(lines) :
        ~HeaderLine(lines[k]) /\ ~(lines[k].key = "" /\ lines[k].text = "")}

SubjectLines(lines) ==
    {k \in TextLinesFrom(lines, 1) : lines[k].text # "commit 0123abc"}

Min(S) == CHOOSE k \in S : \A j \in S : k <= j

(* C25: the body parse_message returns is every line from the first line  *)
(* after the subject that is neither empty nor a header, in the input's    *)
(* order, each without the indentation of a `git show` message.            *)
C25_BodyComplete ==
    (callPc = "returned" /\ callArgs.fn = "parse_message") =>
        LET lines == callArgs.message
            first == IF SubjectLines(lines) = {} THEN Len(lines) + 1
                     ELSE IF TextLinesFrom(lines, Min(SubjectLines(lines)) + 1) = {}
                     THEN Len(lines) + 1
                     ELSE Min(TextLinesFrom(lines, Min(SubjectLines(lines)) + 1))
            dedent == \E k \in 1..Len(lines) :
                        /\ lines[k].text = "commit 0123abc"
                        /\ SubjectLines(lines) # {} => k < Min(SubjectLines(lines))
        IN  callRet.message =
                [k \in 1..(Len(lines) + 1 - first) |->
                    IF dedent THEN [lines[first + k - 1] EXCEPT !.indent = FALSE]
                    ELSE lines[first + k - 1]]

(* The value of the last line with this key before line n, if any *)
LastBefore(lines, key, n) ==
    IF \E k \in 1..(n - 1) : lines[k].key = key /\ HeaderLine(lines[k])
    THEN Some(lines[CHOOSE k \in 1..(n - 1) :
                      /\ lines[k].key = key /\ HeaderLine(lines[k])
                      /\ \A j \in (k + 1)..(n - 1) :
                            ~(lines[j].key = key /\ HeaderLine(lines[j]))].text)
    ELSE None

(* C26 as stated: the patch name, the author and the date are those of    *)
(* the header lines before the subject; a header-looking line after the    *)
(* subject changes none of them.                                           *)
C26_SubjectEndsHeaders ==
    (callPc = "returned" /\ callArgs.fn = "parse_message"
        /\ SubjectLines(callArgs.message) # {}) =>
        /\ callRet.headers.patchname
             = LastBefore(callArgs.message, "Patch", Min(SubjectLines(callArgs.message)))
        /\ callRet.headers.author_date
             = LastBefore(callArgs.message, "Date", Min(SubjectLines(callArgs.message)))

(* C26, amended: header lines that follow the subject, with or without     *)
(* empty lines in between, are still parsed and set the patch name, the    *)
(* author and the date; the first line after the subject that is neither   *)
(* empty nor a header ends the header section, and no line from there on   *)
(* changes them.  The subject is the first line that is neither empty, a   *)
(* header nor a commit line: a key: value line with another key is the     *)
(* subject, key and value.                                                 *)
C26_HeadersUntilText ==
    (callPc = "returned" /\ callArgs.fn = "parse_message") =>
        LET lines == callArgs.message
            ends == IF SubjectLines(lines) = {} THEN Len(lines) + 1
                    ELSE IF TextLinesFrom(lines, Min(SubjectLines(lines)) + 1) = {}
                    THEN Len(lines) + 1
                    ELSE Min(TextLinesFrom(lines, Min(SubjectLines(lines)) + 1))
        IN  /\ callRet.headers.patchname = LastBefore(lines, "Patch", ends)
            /\ callRet.headers.author_date = LastBefore(lines, "Date", ends)
            /\ IsSome(callRet.headers.author_name)
                 <=> IsSome(LastBefore(lines, "From", ends))
            /\ IsSome(callRet.headers.author_email)
                 <=> IsSome(LastBefore(lines, "From", ends))
            /\ callRet.headers.subject =
                 IF SubjectLines(lines) = {} THEN None
                 ELSE Some(IF lines[Min(SubjectLines(lines))].key = ""
                           THEN lines[Min(SubjectLines(lines))].text
                           ELSE lines[Min(SubjectLines(lines))].key \o ": "
                                  \o lines[Min(SubjectLines(lines))].text)

C26_Witness ==
    /\ callPc = "returned"
    /\ callArgs.fn = "parse_message"
    /\ Len(callArgs.message) = 4
    /\ callArgs.message[1].key = "Key"
    /\ callArgs.message[2].key = "Date"
    /\ callArgs.message[3].text = "text"
    /\ callArgs.message[4].key = "Patch"
    /\ callArgs.message[4].text = "name"
    /\ callRet.headers.subject = Some("Key: value")
    /\ callRet.headers.author_date = Some("value")
    /\ callRet.headers.patchname = None

(* C22: in the single-file path and in the mail path alike, an "empty     *)
(* patch" failure of mailinfo goes on as empty headers, an empty message   *)
(* and an empty diff, and any other failure of mailinfo is returned.       *)
C22_EmptyPatchRecovered ==
    (callPc = "returned" /\ callArgs.fn \in {"import_file", "import_mail"}
        /\ ~callArgs.mailinfo_result.ok) =>
        IF callArgs.mailinfo_result.err.kind = "error: empty patch"
        THEN /\ callRet.ok
             /\ callRet.val = [headers |-> NoHeaders, message |-> <<>>, diff |-> <<>>]
        ELSE callRet = callArgs.mailinfo_result

(* C23: in the single-file path and in the mail path alike, when the      *)
(* header block of mailinfo has none of the recognised headers, the        *)
(* headers and the body are those parse_message finds in the message.      *)
C23_MailFallsBackToMessage ==
    (/\ callPc = "returned"
     /\ callArgs.fn \in {"import_file", "import_mail"}
     /\ callArgs.mailinfo_result.ok
     /\ parse_mailinfo(callArgs.mailinfo_result.val.mailinfo) = Ok(None)) =>
        /\ callRet.ok
        /\ callRet.val.headers = parse_message(callArgs.mailinfo_result.val.message).headers
        /\ callRet.val.message = parse_message(callArgs.mailinfo_result.val.message).message

---------------------------------------------------------------------------
(* import.rs: the temporary directories of import_url (242),               *)
(* import_t*_series (278, 288, 298) and import_mail (416)                  *)
(*                                                                         *)
(* callArgs is the command line (built with import-url and                 *)
(* import-compressed), callPc the place the command has reached, callRet   *)
(* the frames of the functions that have not returned (each with the       *)
(* TempDir it owns), the temporary directories that exist (live), the      *)
(* number made, the patches imported and the result so far.                *)

(* A function returns and its TempDir is kept on disk *)
drop_nothing(frame, live) == live

(* A function returns: the TempDir it owns goes out of scope and its       *)
(* directory is removed                                                    *)
drop(frame, live) == live \ Range(frame.temp)

TempInit ==
    /\ callArgs \in [fn : {"run"}, url : BOOLEAN, mode : {"series", "mail", "file"},
                     archive : {"", ".tar.gz", ".tar.bz2", ".tar"},
                     items : 0..MaxLines]
    /\ callArgs.mode # "series" => callArgs.archive = ""
    /\ callRet = [frames |-> <<[fn |-> "run", temp |-> None]>>, live |-> {}, made |-> 0,
                  done |-> 0, result |-> "running"]
    /\ callPc = "run"
    /\ JsonIdle
    /\ CommitIdle
    /\ ImportIdle

(* The function a mode is imported by, and where it starts *)
Entry(mode) ==
    IF mode = "series" THEN <<"import_series", "series">>
    ELSE IF mode = "mail" THEN <<"import_mail", "mail_tempdir">>
    ELSE <<"import_file", "file">>

(* run 208-217, import_url 263-270, import_series 330-340 and               *)
(* import_t*_series 280: a call of the next function                       *)
TempCall ==
    /\ callPc \in {"run", "url_dispatch", "series", "tar_series"}
    /\ \E next \in {IF callPc = "run" /\ callArgs.url THEN <<"import_url", "url_tempdir">>
                    ELSE IF callPc \in {"run", "url_dispatch"} THEN Entry(callArgs.mode)
                    ELSE IF callPc = "series" /\ callArgs.archive # ""
                    THEN <<"import_tar_series", "tar_open">>
                    ELSE IF callPc = "tar_series" THEN <<"import_series", "lines">>
                    ELSE <<"", "lines">>} :
        /\ callRet' = IF next[1] = "" THEN callRet
                      ELSE [callRet EXCEPT !.frames = Append(@, [fn |-> next[1], temp |-> None])]
        /\ callPc' = next[2]
    /\ UNCHANGED <<callArgs, jsonVars, commitVars, importVars>>

(* tempfile::tempdir()? at lines 242, 278/288/298 and 416 *)
TempDir ==
    /\ callPc \in {"url_tempdir", "tar_tempdir", "mail_tempdir"}
    /\ \E ok \in BOOLEAN :
        IF ok
        THEN /\ callRet' = [callRet EXCEPT
                              !.frames[Len(callRet.frames)].temp = Some(callRet.made + 1),
                              !.live = @ \cup {callRet.made + 1},
                              !.made = @ + 1]
             /\ callPc' = IF callPc = "url_tempdir" THEN "url_fetch"
                          ELSE IF callPc = "tar_tempdir" THEN "tar_unpack"
                          ELSE "mailsplit"
        ELSE /\ callRet' = [callRet EXCEPT !.result = "err"]
             /\ callPc' = "returning"
    /\ UNCHANGED <<callArgs, jsonVars, commitVars, importVars>>

(* The steps that may fail with `?`: creating the download file and the    *)
(* transfer (244-261), File::open (276), unpack (279), find_series_path    *)
(* (280), mailsplit (422), and the import of one patch (390, 426-429, 267) *)
TempStep ==
    /\ callPc \in {"url_fetch", "tar_open", "tar_unpack", "tar_find", "mailsplit",
                   "lines", "file"}
    /\ \E ok \in BOOLEAN :
        IF callPc = "lines" /\ callRet.done >= callArgs.items
        THEN /\ callRet' = [callRet EXCEPT !.result = "ok"]
             /\ callPc' = "returning"
        ELSE IF ~ok
        THEN /\ callRet' = [callRet EXCEPT !.result = "err"]
             /\ callPc' = "returning"
        ELSE IF callPc = "lines"
        THEN /\ callRet' = [callRet EXCEPT !.done = @ + 1]
             /\ callPc' = "lines"
        ELSE IF callPc = "file"
        THEN /\ callRet' = [callRet EXCEPT !.done = @ + 1, !.result = "ok"]
             /\ callPc' = "returning"
        ELSE /\ callRet' = callRet
             /\ callPc' = IF callPc = "url_fetch" THEN "url_dispatch"
                          ELSE IF callPc = "tar_open" THEN "tar_tempdir"
                          ELSE IF callPc = "tar_unpack" THEN "tar_find"
                          ELSE IF callPc = "tar_find" THEN "tar_series"
                          ELSE "lines"
    /\ UNCHANGED <<callArgs, jsonVars, commitVars, importVars>>

(* The innermost function returns to its caller, run to main *)
TempReturn ==
    /\ callPc = "returning"
    /\ callRet' = [callRet EXCEPT
                     !.frames = SubSeq(@, 1, Len(@) - 1),
                     !.live = drop(callRet.frames[Len(callRet.frames)], @)]
    /\ callPc' = IF Len(callRet.frames) = 1 THEN "done" ELSE "returning"
    /\ UNCHANGED <<callArgs, jsonVars, commitVars, importVars>>

SpecTemp == TempInit /\ [][TempCall \/ TempDir \/ TempStep \/ TempReturn]_vars

(* C28: the temporary directories that exist are those of the functions    *)
(* that have not returned; when the import has returned, with Ok or with   *)
(* an error from any step, none is left.                                   *)
C28_TempDirsReleased ==
    /\ callPc \in {"run", "url_tempdir", "url_fetch", "url_dispatch", "series",
                   "tar_open", "tar_tempdir", "tar_unpack", "tar_find", "tar_series",
                   "mail_tempdir", "mailsplit", "lines", "file", "returning", "done"}
    /\ callRet.live = UNION {Range(callRet.frames[k].temp) : k \in 1..Len(callRet.frames)}
    /\ callPc = "done" => (callRet.live = {} /\ callRet.frames = <<>>)

C28_Witness ==
    /\ callPc = "done"
    /\ callRet.made = 2
    /\ callRet.result = "err"
    /\ callRet.done = 1
    /\ callArgs.items = 2
    /\ callRet.live = {}

---------------------------------------------------------------------------
(* hook.rs: run_pre_commit_hook and run_commit_msg_hook                    *)
(*                                                                         *)
(* callArgs is the hook called and what it finds: the result of            *)
(* get_hook_path, the metadata of the script, the build (unix or not),     *)
(* whether the message file can be written, how the process ends           *)
(* ("spawn failed", an exit code, or "signal") and what is read back from  *)
(* the message file.  callRet is the value returned and whether a process  *)
(* was started.                                                            *)

(* is_executable with only the owner's bit looked at *)
is_executable_owner(unix, mode) ==
    IF unix THEN (mode \div 64) % 2 = 1 ELSE TRUE

(* is_executable, lines 151-160: meta.mode() & 0o111 != 0 *)
is_executable(unix, mode) ==
    IF unix
    THEN (mode \div 64) % 2 = 1 \/ (mode \div 8) % 2 = 1 \/ mode % 2 = 1
    ELSE TRUE

HookReturn(result, started) == [result |-> result, started |-> started]

(* run_pre_commit_hook, lines 41-80 *)
run_pre_commit_hook(a) ==
    IF ~a.hook_path.ok THEN HookReturn(a.hook_path, FALSE)
    ELSE IF ~a.metadata.ok THEN HookReturn(Ok(FALSE), FALSE)
    ELSE IF ~a.metadata.val.is_file THEN HookReturn(Ok(FALSE), FALSE)
    ELSE IF ~is_executable(a.unix, a.metadata.val.mode) THEN HookReturn(Ok(FALSE), FALSE)
    ELSE IF a.status = "spawn failed" THEN HookReturn(Err("pre-commit hook", ""), FALSE)
    ELSE IF a.status = "exit 0" THEN HookReturn(Ok(TRUE), TRUE)
    ELSE HookReturn(Err("hook returned", IF a.status = "signal" THEN -1 ELSE 1),
                    TRUE)

(* run_commit_msg_hook, lines 92-149 *)
run_commit_msg_hook(a) ==
    IF ~a.hook_path.ok THEN HookReturn(a.hook_path, FALSE)
    ELSE IF ~a.metadata.ok THEN HookReturn(Ok(a.message), FALSE)
    ELSE IF ~a.metadata.val.is_file THEN HookReturn(Ok(a.message), FALSE)
    ELSE IF ~is_executable(a.unix, a.metadata.val.mode)
    THEN HookReturn(Ok(a.message), FALSE)
    ELSE IF ~a.msg_file_ok THEN HookReturn(Err("message file", ""), FALSE)
    ELSE IF a.status = "spawn failed" THEN HookReturn(Err("commit-msg hook", ""), FALSE)
    ELSE IF a.status = "exit 0"
    THEN IF ~a.read.ok THEN HookReturn(a.read, TRUE)
         ELSE IF ~a.read.val.decodes
         THEN HookReturn(Err("message could not be decoded", ""), TRUE)
         ELSE HookReturn(Ok(a.read.val.text), TRUE)
    ELSE HookReturn(Err("hook returned", IF a.status = "signal" THEN -1 ELSE 1),
                    TRUE)

HookInit ==
    /\ callArgs \in
        [fn : {"run_pre_commit_hook", "run_commit_msg_hook"},
         hook_path : {Ok("hooks/hook"), Err("core.hookspath", "")},
         metadata : {Err("not found", "")}
                    \cup {Ok(m) : m \in [is_file : BOOLEAN,
                                         mode : {0, 1, 8, 64, 420, 493}]},
         unix : BOOLEAN,
         use_editor : BOOLEAN,
         message : {"message"},
         msg_file_ok : BOOLEAN,
         status : {"spawn failed", "exit 0", "exit 1", "signal"},
         read : {Err("read", ""), Ok([text |-> "message by hook", decodes |-> TRUE]),
                 Ok([text |-> "", decodes |-> FALSE])}]
    /\ callRet = <<>>
    /\ callPc = "args"
    /\ JsonIdle
    /\ CommitIdle
    /\ ImportIdle

RunPreCommitHook ==
    /\ callPc = "args"
    /\ callArgs.fn = "run_pre_commit_hook"
    /\ callRet' = run_pre_commit_hook(callArgs)
    /\ callPc' = "returned"
    /\ UNCHANGED <<callArgs, jsonVars, commitVars, importVars>>

RunCommitMsgHook ==
    /\ callPc = "args"
    /\ callArgs.fn = "run_commit_msg_hook"
    /\ callRet' = run_commit_msg_hook(callArgs)
    /\ callPc' = "returned"
    /\ UNCHANGED <<callArgs, jsonVars, commitVars, importVars>>

SpecHook == HookInit /\ [][RunPreCommitHook \/ RunCommitMsgHook]_vars

(* The script is missing, no regular file, or (on unix) has no execute bit *)
NoHookToRun ==
    \/ ~callArgs.metadata.ok
    \/ ~callArgs.metadata.val.is_file
    \/ callArgs.unix /\ callArgs.metadata.val.mode \in {0, 420}

(* C29 as stated: with no script to run, run_pre_commit_hook returns       *)
(* Ok(false) and run_commit_msg_hook the message it was given, and no      *)
(* process is started; when the script runs, exit code 0 yields Ok(true)   *)
(* and the message read back from the file, any other exit an error.       *)
C29_HookRunners ==
    (callPc = "returned" /\ callArgs.hook_path.ok) =>
        IF NoHookToRun
        THEN /\ ~callRet.started
             /\ callRet.result = IF callArgs.fn = "run_pre_commit_hook" THEN Ok(FALSE)
                                 ELSE Ok(callArgs.message)
        ELSE callRet.started =>
                IF callArgs.status = "exit 0"
                THEN /\ callRet.result.ok
                     /\ callRet.result.val =
                            IF callArgs.fn = "run_pre_commit_hook" THEN TRUE
                            ELSE IF callArgs.read.ok THEN callArgs.read.val.text
                            ELSE callRet.result.val
                ELSE ~callRet.result.ok

(* C29, amended: as stated, except that after exit code 0                  *)
(* run_commit_msg_hook returns the message read back only when the file    *)
(* can be read and its bytes decode in the message's encoding, and an      *)
(* error otherwise; a script that runs is one whose message file could be  *)
(* written and whose process could be started.                             *)
C29_HookRunnersDecoded ==
    (callPc = "returned" /\ callArgs.hook_path.ok) =>
        IF NoHookToRun
        THEN /\ ~callRet.started
             /\ callRet.result = IF callArgs.fn = "run_pre_commit_hook" THEN Ok(FALSE)
                                 ELSE Ok(callArgs.message)
        ELSE /\ callRet.started <=>
                    /\ callArgs.status # "spawn failed"
                    /\ callArgs.fn = "run_commit_msg_hook" => callArgs.msg_file_ok
             /\ ~callRet.started => ~callRet.result.ok
             /\ callRet.started =>
                    IF callArgs.status # "exit 0" THEN ~callRet.result.ok
                    ELSE IF callArgs.fn = "run_pre_commit_hook"
                    THEN callRet.result = Ok(TRUE)
                    ELSE IF callArgs.read.ok /\ callArgs.read.val.decodes
                    THEN callRet.result = Ok(callArgs.read.val.text)
                    ELSE ~callRet.result.ok

C29_Witness ==
    /\ callPc = "returned"
    /\ callArgs.fn = "run_commit_msg_hook"
    /\ callArgs.hook_path.ok
    /\ callArgs.metadata.ok
    /\ callArgs.metadata.val.is_file
    /\ callArgs.unix
    /\ callArgs.metadata.val.mode = 8
    /\ callArgs.status = "exit 0"
    /\ callArgs.read.ok
    /\ ~callArgs.read.val.decodes
    /\ callRet.started
    /\ ~callRet.result.ok

=============================================================================
